---- MODULE Spec2Model ----
(***************************************************************************)
(* Model of ignition-lint's fix framework and component-reference rule:    *)
(*   common/path_translator.py     PathTranslator                          *)
(*   common/fix_operations.py      FixOperation, Fix                       *)
(*   common/fix_engine.py          FixEngine                               *)
(*   rules/structure/component_reference_validation.py                     *)
(*                                                                         *)
(* Strings are sequences of tokens (a token is a run of characters that    *)
(* no pattern of the code splits: "root", ".", "[", "0", "/", "{", ...).   *)
(* JSON values are records [t, v]: a str (token sequence), a num, a dict   *)
(* (a sequence of <<key, value>> pairs, in insertion order) or a list.     *)
(* A JSON path is a sequence of segments: <<"k", key>> for a str key,      *)
(* <<"i", n>> for an int index.                                            *)
(***************************************************************************)
EXTENDS Integers, Sequences, FiniteSets, TLC

VARIABLES
    json_data,       \* PathTranslator.json_data: the document, mutated in place
    fixes,           \* the fix list handed to the engine: a sequence of fix ids
    safe_only,       \* apply_fixes / dry_run argument
    rule_filter,     \* apply_fixes / dry_run argument: None or a list of rule names
    pc,              \* position of the apply_fixes call
    idx,             \* apply_fixes: index of the next fix of the for loop
    result,          \* apply_fixes: the FixResult under construction
    conflicting_fixes, \* apply_fixes: the set of ids of the fix_b of each conflict
    raised,          \* the exception that left apply_fixes, or None
    written,         \* history: <<fix id, operation index>> of every operation executed
    dry_result,      \* the FixResult dry_run returned, or None
    dry_doc,         \* history: the document as dry_run found it
    model_to_json,   \* PathTranslator._model_to_json: pairs <<model path, json path>>
    component_name_paths,  \* PathTranslator._component_name_paths
    pt_pc,           \* "new": before __init__ ran; "ready"; "raised"
    lookup,          \* the last lookup made on the translator and its answer, or None
    view,            \* the view the node list of the pass was built from, or None
    nodes,           \* the node list handed to process_nodes
    validate_expressions,        \* rule configuration
    validate_property_bindings,  \* rule configuration
    validate_scripts,            \* rule configuration
    component_tree,  \* rule index: pairs <<path, component node>>
    component_by_name,  \* rule index: pairs <<name, component nodes>>
    parent_map,      \* rule index: pairs <<component path, parent path>>
    children_map,    \* rule index: pairs <<parent path, child paths>>
    errors,          \* the violation strings of the pass
    rv_pc,           \* process_nodes: "idle", "validate", "done"
    rv_idx,          \* position of the validation loop in nodes
    rv_pass,         \* history: the number of calls of process_nodes on the rule
    rv_trace         \* history: one record per relative reference validated

engine_vars == <<fixes, safe_only, rule_filter, pc, idx, result,
                 conflicting_fixes, raised, written, dry_result, dry_doc>>
pt_vars == <<model_to_json, component_name_paths, pt_pc, lookup>>
rule_vars == <<view, nodes, validate_expressions, validate_property_bindings, validate_scripts,
               component_tree, component_by_name, parent_map, children_map,
               errors, rv_pc, rv_idx, rv_pass, rv_trace>>
vars == <<json_data, engine_vars, pt_vars, rule_vars>>

\* Optional[...]: Python's None, or a value
None == [some |-> FALSE]
Some(x) == [some |-> TRUE, v |-> x]
\* Python truthiness of an Optional[str] / Optional[list]
Truthy(x) == x.some /\ x.v # <<>>
NoException == "NoException"

-----------------------------------------------------------------------------
(* JSON values *)

Str(s) == [t |-> "str", v |-> s]
Num(n) == [t |-> "num", v |-> n]
Dict(kv) == [t |-> "dict", v |-> kv]
List(items) == [t |-> "list", v |-> items]

\* a string of one token
Tok(name) == <<name>>

K(name) == <<"k", <<name>>>>
KS(tokens) == <<"k", tokens>>
I(n) == <<"i", n>>

\* position of key seg in the dict's pairs, 0 when the key is absent
KeyPos(kv, seg) ==
    IF \E i \in 1..Len(kv) : kv[i][1] = seg
    THEN CHOOSE i \in 1..Len(kv) : kv[i][1] = seg
    ELSE 0

\* current[key] of get_value / set_value for one segment: the value reached,
\* or the exception Python raises
Index(current, seg) ==
    IF current.t = "dict"
    THEN IF KeyPos(current.v, seg) = 0
         THEN [ok |-> FALSE, err |-> "KeyError"]
         ELSE [ok |-> TRUE, val |-> current.v[KeyPos(current.v, seg)][2]]
    ELSE IF current.t = "list"
    THEN IF seg[1] # "i"
         THEN [ok |-> FALSE, err |-> "TypeError"]
         ELSE IF seg[2] + 1 > Len(current.v)
         THEN [ok |-> FALSE, err |-> "IndexError"]
         ELSE [ok |-> TRUE, val |-> current.v[seg[2] + 1]]
    ELSE [ok |-> FALSE, err |-> "KeyError"]

RECURSIVE get_value_from(_, _)
\* r: the outcome of current = current[key]
get_value_next(r, rest) == IF r.ok THEN get_value_from(r.val, rest) ELSE r

get_value_from(current, json_path) ==
    IF json_path = <<>>
    THEN [ok |-> TRUE, val |-> current]
    ELSE get_value_next(Index(current, Head(json_path)), Tail(json_path))

get_value(doc, json_path) == get_value_from(doc, json_path)

\* current[last_key] = value
Store(current, seg, value) ==
    IF current.t = "dict"
    THEN LET p == KeyPos(current.v, seg)
         IN  IF p = 0
             THEN [ok |-> TRUE, val |-> Dict(Append(current.v, <<seg, value>>))]
             ELSE [ok |-> TRUE, val |-> Dict([current.v EXCEPT ![p] = <<seg, value>>])]
    ELSE IF current.t = "list"
    THEN IF seg[1] # "i"
         THEN [ok |-> FALSE, err |-> "TypeError"]
         ELSE IF seg[2] + 1 > Len(current.v)
         THEN [ok |-> FALSE, err |-> "IndexError"]
         ELSE [ok |-> TRUE, val |-> List([current.v EXCEPT ![seg[2] + 1] = value])]
    ELSE [ok |-> FALSE, err |-> "KeyError"]

\* the container `current` with the value under seg replaced by child (the
\* in-place effect, on the enclosing containers, of a store further down)
Reattach(current, seg, child) ==
    IF current.t = "dict"
    THEN Dict([current.v EXCEPT ![KeyPos(current.v, seg)] = <<seg, child>>])
    ELSE List([current.v EXCEPT ![seg[2] + 1] = child])

RECURSIVE set_value_from(_, _, _)
\* s: the outcome of the store below current[seg]
set_value_up(current, seg, s) ==
    IF s.ok THEN [ok |-> TRUE, val |-> Reattach(current, seg, s.val)] ELSE s

\* r: the outcome of current = current[key]
set_value_next(current, json_path, value, r) ==
    IF ~r.ok
    THEN r
    ELSE set_value_up(current, Head(json_path), set_value_from(r.val, Tail(json_path), value))

set_value_from(current, json_path, value) ==
    IF json_path = <<>>
    THEN [ok |-> FALSE, err |-> "IndexError"]
    ELSE IF Len(json_path) = 1
    THEN Store(current, json_path[1], value)
    ELSE set_value_next(current, json_path, value, Index(current, Head(json_path)))

\* [ok |-> TRUE, val |-> the document after the store] or [ok |-> FALSE, err |-> exception]
set_value(doc, json_path, value) == set_value_from(doc, json_path, value)

Contains(value, sub) ==
    \E i \in 0..(Len(value) - Len(sub)) : SubSeq(value, i + 1, i + Len(sub)) = sub

\* str.replace(old, new): every non-overlapping occurrence, left to right
RECURSIVE Replace(_, _, _)
Replace(value, old, new) ==
    IF Len(value) < Len(old) \/ old = <<>>
    THEN value
    ELSE IF SubSeq(value, 1, Len(old)) = old
    THEN new \o Replace(SubSeq(value, Len(old) + 1, Len(value)), old, new)
    ELSE <<Head(value)>> \o Replace(Tail(value), old, new)

\* [err, doc, ret]: the exception raised (or NoException), the document afterwards,
\* the bool returned
\* s: the outcome of self.set_value(json_path, new_value)
string_replace_store(doc, s) ==
    IF s.ok
    THEN [err |-> NoException, doc |-> s.val, ret |-> TRUE]
    ELSE [err |-> s.err, doc |-> doc, ret |-> FALSE]

\* g: the outcome of value = self.get_value(json_path)
string_replace_value(doc, json_path, old_substring, new_substring, g) ==
    IF ~g.ok
    THEN [err |-> g.err, doc |-> doc, ret |-> FALSE]
    ELSE IF g.val.t # "str"
    THEN [err |-> NoException, doc |-> doc, ret |-> FALSE]
    ELSE IF ~Contains(g.val.v, old_substring)
    THEN [err |-> NoException, doc |-> doc, ret |-> FALSE]
    ELSE string_replace_store(
             doc, set_value(doc, json_path, Str(Replace(g.val.v, old_substring, new_substring))))

string_replace_at(doc, json_path, old_substring, new_substring) ==
    string_replace_value(doc, json_path, old_substring, new_substring,
                         get_value(doc, json_path))

-----------------------------------------------------------------------------
(* fix_operations.py *)

SET_VALUE == "set_value"
STRING_REPLACE == "string_replace"

SetOp(path, new) ==
    [operation |-> SET_VALUE, json_path |-> path, new_value |-> new,
     old_substring |-> <<>>, new_substring |-> <<>>]
ReplaceOp(path, old, new) ==
    [operation |-> STRING_REPLACE, json_path |-> path, new_value |-> None,
     old_substring |-> old, new_substring |-> new]
Fix(rule, ops, safe, notes) ==
    [rule_name |-> rule, operations |-> ops, is_safe |-> safe, safety_notes |-> notes]

-----------------------------------------------------------------------------
(* path_translator.py: the mappings built by __init__ *)

\* a Python dict keyed by strings, in insertion order
MapPos(map, key) ==
    IF \E i \in 1..Len(map) : map[i][1] = key
    THEN CHOOSE i \in 1..Len(map) : map[i][1] = key
    ELSE 0
\* map.get(key)
MapGet(map, key) == IF MapPos(map, key) = 0 THEN None ELSE Some(map[MapPos(map, key)][2])
\* map[key] = value: a key already present keeps its place and takes the value
MapPut(map, key, value) ==
    IF MapPos(map, key) = 0
    THEN Append(map, <<key, value>>)
    ELSE [map EXCEPT ![MapPos(map, key)] = <<key, value>>]

\* truthiness of a JSON value
TruthyValue(value) == IF value.t = "num" THEN value.v # 0 ELSE value.v # <<>>
\* a value inside an f-string (a container is shown by one token)
FormatValue(value) ==
    IF value.t = "str"
    THEN value.v
    ELSE IF value.t = "num" THEN <<ToString(value.v)>> ELSE <<"{...}">>

\* data.get(key)
DictGet(data, key) ==
    IF KeyPos(data.v, K(key)) = 0 THEN None ELSE Some(data.v[KeyPos(data.v, K(key))][2])
\* data.get('meta', {}) is not a dict: .get('name') raises AttributeError
MetaRaises(data) == DictGet(data, "meta").some /\ DictGet(data, "meta").v.t # "dict"
\* data.get('meta', {}).get('name')
component_name(data) ==
    IF DictGet(data, "meta").some THEN DictGet(DictGet(data, "meta").v, "name") ELSE None

\* f"{model_path}.{key}" if model_path else key
JoinKey(model_path, key) == IF model_path # <<>> THEN model_path \o <<".">> \o key ELSE key
\* f"{model_path}[{index}]"
ItemPath(model_path, index) == model_path \o <<"[", ToString(index), "]">>

\* a dict with a component name: both mappings of the component
record_component(st, new_model_path, json_path) ==
    [st EXCEPT !.model_to_json = MapPut(@, new_model_path, json_path),
               !.component_name_paths =
                   MapPut(@, new_model_path, json_path \o <<K("meta"), K("name")>>)]

RECURSIVE build_mappings(_, _, _, _)
RECURSIVE build_items(_, _, _, _)
RECURSIVE build_list_mappings(_, _, _, _, _)

\* body of "for key, value in data.items()"
build_value(st, value, child_model_path, child_json_path) ==
    IF value.t = "dict"
    THEN build_mappings(st, value, child_model_path, child_json_path)
    ELSE IF value.t = "list"
    THEN build_list_mappings(st, value.v, child_model_path, child_json_path, 0)
    ELSE [st EXCEPT !.model_to_json = MapPut(@, child_model_path, child_json_path)]

build_items(st, kv, model_path, json_path) ==
    IF kv = <<>> \/ st.err # NoException
    THEN st
    ELSE build_items(build_value(st, kv[1][2], JoinKey(model_path, kv[1][1][2]),
                                 Append(json_path, kv[1][1])),
                     Tail(kv), model_path, json_path)

\* the dict branch of _build_mappings, name = data.get('meta', {}).get('name')
build_dict(st, data, model_path, json_path, name) ==
    IF name.some /\ TruthyValue(name.v)
    THEN build_items(record_component(st, JoinKey(model_path, FormatValue(name.v)), json_path),
                     data.v, JoinKey(model_path, FormatValue(name.v)), json_path)
    ELSE build_items(st, data.v, model_path, json_path)

build_mappings(st, data, model_path, json_path) ==
    IF st.err # NoException
    THEN st
    ELSE IF data.t = "dict"
    THEN IF MetaRaises(data)
         THEN [st EXCEPT !.err = "AttributeError"]
         ELSE build_dict(st, data, model_path, json_path, component_name(data))
    ELSE IF data.t = "list"
    THEN build_list_mappings(st, data.v, model_path, json_path, 0)
    ELSE st

\* body of "for index, item in enumerate(items)"
build_item(st, item, item_model_path, item_json_path) ==
    IF item.t \in {"dict", "list"}
    THEN build_mappings(st, item, item_model_path, item_json_path)
    ELSE [st EXCEPT !.model_to_json = MapPut(@, item_model_path, item_json_path)]

build_list_mappings(st, items, model_path, json_path, index) ==
    IF items = <<>> \/ st.err # NoException
    THEN st
    ELSE build_list_mappings(build_item(st, items[1], ItemPath(model_path, index),
                                        Append(json_path, I(index))),
                             Tail(items), model_path, json_path, index + 1)

\* PathTranslator(json_data): the mappings, or the exception of the walk
PathTranslator(doc) ==
    build_mappings([model_to_json |-> <<>>, component_name_paths |-> <<>>,
                    err |-> NoException], doc, <<>>, <<>>)

model_path_to_json_path(map, model_path) == MapGet(map, model_path)
get_component_name_path(map, component_model_path) == MapGet(map, component_model_path)

-----------------------------------------------------------------------------
(* component_reference_validation.py *)

\* sub occurs in s at position i
SubAt(s, sub, i) == i >= 1 /\ i + Len(sub) - 1 <= Len(s) /\ SubSeq(s, i, i + Len(sub) - 1) = sub
\* s.find(sub): the first position of sub in s, 0 when it does not occur
Find(s, sub) ==
    IF \E i \in 1..Len(s) : SubAt(s, sub, i)
    THEN CHOOSE i \in 1..Len(s) : SubAt(s, sub, i) /\ \A j \in 1..(i - 1) : ~SubAt(s, sub, j)
    ELSE 0
\* s.split(sub)[0]
SplitFirst(s, sub) == IF Find(s, sub) = 0 THEN s ELSE SubSeq(s, 1, Find(s, sub) - 1)
\* s.startswith(prefix)
EndsWith(s, suffix) ==
    Len(suffix) <= Len(s) /\ SubSeq(s, Len(s) - Len(suffix) + 1, Len(s)) = suffix
StartsWith(s, prefix) == Len(prefix) <= Len(s) /\ SubSeq(s, 1, Len(prefix)) = prefix
\* s.split(sep) for a separator of one token
RECURSIVE Split(_, _)
Split(s, sep) ==
    IF Find(s, <<sep>>) = 0
    THEN <<s>>
    ELSE <<SubSeq(s, 1, Find(s, <<sep>>) - 1)>>
         \o Split(SubSeq(s, Find(s, <<sep>>) + 1, Len(s)), sep)

\* largest child index of the views
MaxIndex == 2
\* \d+
Digits == {ToString(n) : n \in 0..MaxIndex}

\* (.*?)\.children\[\d+\]\.[^.]+$ matches with group(1) = the first i tokens
ParentMatch(component_path, i) ==
    /\ i + 6 < Len(component_path)
    /\ component_path[i + 1] = "." /\ component_path[i + 2] = "children"
    /\ component_path[i + 3] = "[" /\ component_path[i + 4] \in Digits
    /\ component_path[i + 5] = "]" /\ component_path[i + 6] = "."
    /\ \A j \in (i + 7)..Len(component_path) : component_path[j] # "."

\* _extract_parent_path: the parent path, or None
extract_parent_path(component_path) ==
    IF Find(component_path, <<".", "children", "[">>) = 0
    THEN None
    ELSE IF \E i \in 0..Len(component_path) : ParentMatch(component_path, i)
    THEN Some(SubSeq(component_path, 1,
                     CHOOSE i \in 0..Len(component_path) :
                         /\ ParentMatch(component_path, i)
                         /\ \A j \in 0..(i - 1) : ~ParentMatch(component_path, j)))
    ELSE None

\* map.get(key, []) followed by append
MapAppend(map, key, value) ==
    IF MapPos(map, key) = 0
    THEN Append(map, <<key, <<value>>>>)
    ELSE [map EXCEPT ![MapPos(map, key)][2] = Append(@, value)]

\* "if parent_path:" of _build_component_index
index_parent(ix, component, parent_path) ==
    IF Truthy(parent_path)
    THEN [ix EXCEPT !.parent_map = MapPut(@, component.path, parent_path.v),
                    !.children_map = MapAppend(@, parent_path.v, component.path)]
    ELSE ix

\* body of "for component in components"
index_component(ix, component) ==
    index_parent([ix EXCEPT !.component_tree = MapPut(@, component.path, component),
                            !.component_by_name = MapAppend(@, component.name, component)],
                 component, extract_parent_path(component.path))

RECURSIVE build_component_index(_, _)
build_component_index(ix, components) ==
    IF components = <<>>
    THEN ix
    ELSE build_component_index(index_component(ix, Head(components)), Tail(components))

EmptyIndex ==
    [component_tree |-> <<>>, component_by_name |-> <<>>,
     parent_map |-> <<>>, children_map |-> <<>>]

\* a faulty variant of process_nodes_reset: the lists and maps of the last pass stay
process_nodes_keeps(rule) == rule

\* process_nodes before phase 1: the violation list and the index start empty
process_nodes_reset(rule) ==
    [errors |-> <<>>,
     component_tree |-> <<>>, component_by_name |-> <<>>,
     parent_map |-> <<>>, children_map |-> <<>>]

IsComponentNode(n) == n.node_type = "component"

\* the component paths of the index, longest first
LongestPrefix(ix, path) ==
    CHOOSE i \in 1..Len(ix.component_tree) :
        /\ StartsWith(path, ix.component_tree[i][1])
        /\ \A j \in 1..Len(ix.component_tree) :
               StartsWith(path, ix.component_tree[j][1])
                   => Len(ix.component_tree[j][1]) <= Len(ix.component_tree[i][1])

\* _get_component_path_from_source
get_component_path_from_source(ix, source_path) ==
    IF Find(source_path, <<".", "propConfig", ".">>) # 0
    THEN SplitFirst(source_path, <<".", "propConfig", ".">>)
    ELSE IF Find(source_path, <<".", "props", ".">>) # 0
    THEN SplitFirst(source_path, <<".", "props", ".">>)
    ELSE IF Find(source_path, <<".", "events", ".">>) # 0
    THEN SplitFirst(source_path, <<".", "events", ".">>)
    ELSE IF Find(source_path, <<".", "scripts", ".">>) # 0
    THEN SplitFirst(source_path, <<".", "scripts", ".">>)
    ELSE IF \E i \in 1..Len(ix.component_tree) : StartsWith(source_path, ix.component_tree[i][1])
    THEN ix.component_tree[LongestPrefix(ix, source_path)][1]
    ELSE <<"root">>

\* _extract_component_reference
extract_component_reference(ref_path) ==
    IF Find(ref_path, <<".", "props", ".">>) # 0
    THEN SplitFirst(ref_path, <<".", "props", ".">>)
    ELSE IF Find(ref_path, <<".", "position", ".">>) # 0
    THEN SplitFirst(ref_path, <<".", "position", ".">>)
    ELSE IF Find(ref_path, <<".", "meta", ".">>) # 0
    THEN SplitFirst(ref_path, <<".", "meta", ".">>)
    ELSE IF Find(ref_path, <<".", "custom", ".">>) # 0
    THEN SplitFirst(ref_path, <<".", "custom", ".">>)
    ELSE ref_path

\* the children of parent_path whose component carries the name
ChildHit(ix, children, child_name, i) ==
    /\ MapGet(ix.component_tree, children[i]).some
    /\ MapGet(ix.component_tree, children[i]).v.name = child_name
first_hit(ix, children, child_name) ==
    IF \E i \in 1..Len(children) : ChildHit(ix, children, child_name, i)
    THEN Some(children[CHOOSE i \in 1..Len(children) :
                           /\ ChildHit(ix, children, child_name, i)
                           /\ \A j \in 1..(i - 1) : ~ChildHit(ix, children, child_name, j)])
    ELSE None

\* _find_child
find_child(ix, parent_path, child_name) ==
    IF MapGet(ix.children_map, parent_path).some
    THEN first_hit(ix, MapGet(ix.children_map, parent_path).v, child_name)
    ELSE None

\* _navigate_down_path
RECURSIVE navigate_down_path(_, _, _)
navigate_down_step(ix, found, segments) ==
    IF ~Truthy(found) THEN None ELSE navigate_down_path(ix, found.v, segments)
navigate_down_path(ix, parent_path, segments) ==
    IF segments = <<>>
    THEN Some(parent_path)
    ELSE navigate_down_step(ix, find_child(ix, parent_path, Head(segments)), Tail(segments))

\* "for _ in range(levels_up)": the path reached, or None when a parent is missing
RECURSIVE navigate_up(_, _, _)
navigate_up_step(ix, parent, levels_up) ==
    IF ~Truthy(parent) THEN None ELSE navigate_up(ix, parent.v, levels_up)
navigate_up(ix, current_path, levels_up) ==
    IF levels_up = 0
    THEN Some(current_path)
    ELSE navigate_up_step(ix, MapGet(ix.parent_map, current_path), levels_up - 1)

\* ref_type.title()
Title(ref_type) == IF ref_type = "expression" THEN "Expression" ELSE "Property Binding"

AboveRootMessage(source_path, ref_type, full_ref) ==
    source_path \o <<": Relative ", ref_type, " '">> \o full_ref
        \o <<"' ", "navigates above root component">>
NonExistentMessage(source_path, ref_type, component_ref, full_ref) ==
    source_path \o <<": ", Title(ref_type), " references non-existent ", "component '">>
        \o component_ref \o <<"' in: ">> \o full_ref

\* the reference of one validation: what was asked
Reference(source_path, component_ref, levels_up, ref_type) ==
    [source_path |-> source_path, component_ref |-> component_ref,
     levels_up |-> levels_up, ref_type |-> ref_type]

\* add_violation and the record of the validation
report(st, message, ref, outcome, descended) ==
    [errors |-> Append(st.errors, message),
     trace |-> Append(st.trace, [ref |-> ref, outcome |-> outcome, descended |-> descended])]
pass(st, ref) ==
    [st EXCEPT !.trace = Append(@, [ref |-> ref, outcome |-> "resolved", descended |-> TRUE])]

\* the end of _validate_relative_reference: "if not resolved"
validate_resolved(st, ref, full_ref, resolved) ==
    IF ~Truthy(resolved)
    THEN report(st, NonExistentMessage(ref.source_path, ref.ref_type, ref.component_ref, full_ref),
                ref, "non-existent", TRUE)
    ELSE pass(st, ref)

\* _validate_relative_reference below the loop; up = the path the loop reached
validate_from(ix, st, ref, full_ref, up) ==
    IF ~up.some
    THEN report(st, AboveRootMessage(ref.source_path, ref.ref_type, full_ref),
                ref, "above root", FALSE)
    ELSE IF Find(ref.component_ref, <<"/">>) # 0
    THEN validate_resolved(st, ref, full_ref,
                           navigate_down_path(ix, up.v, Split(ref.component_ref, "/")))
    ELSE validate_resolved(st, ref, full_ref, find_child(ix, up.v, ref.component_ref))

\* _validate_relative_reference
validate_relative_reference(ix, st, source_path, component_ref, levels_up, full_ref, ref_type) ==
    validate_from(ix, st, Reference(source_path, component_ref, levels_up, ref_type), full_ref,
                  navigate_up(ix, get_component_path_from_source(ix, source_path), levels_up))

\* the number of "." tokens from position i on
RECURSIVE DotRun(_, _)
DotRun(s, i) == IF i <= Len(s) /\ s[i] = "." THEN 1 + DotRun(s, i + 1) ELSE 0
\* the first position from i on that holds token t, 0 when there is none
NextPos(s, t, i) ==
    IF \E j \in i..Len(s) : s[j] = t
    THEN CHOOSE j \in i..Len(s) : s[j] = t /\ \A h \in i..(j - 1) : s[h] # t
    ELSE 0

\* \{(\.\.+)/([^}]+)\} matches at position i with run dots
TokenAt(expression, i, run) ==
    /\ expression[i] = "{"
    /\ run >= 2
    /\ i + run + 1 <= Len(expression)
    /\ expression[i + run + 1] = "/"
    /\ NextPos(expression, "}", i + run + 2) > i + run + 2

\* re.finditer over the expression from position i, each match validated
RECURSIVE scan_expression(_, _, _, _)
scan_match(ix, st, node, i, run, close) ==
    scan_expression(
        ix,
        validate_relative_reference(
            ix, st, node.path,
            extract_component_reference(SubSeq(node.expression, i + run + 2, close - 1)),
            run - 1, node.expression, "expression"),
        node, close + 1)
scan_at(ix, st, node, i, run) ==
    IF TokenAt(node.expression, i, run)
    THEN scan_match(ix, st, node, i, run, NextPos(node.expression, "}", i + run + 2))
    ELSE scan_expression(ix, st, node, i + 1)
scan_expression(ix, st, node, i) ==
    IF i > Len(node.expression)
    THEN st
    ELSE scan_at(ix, st, node, i, DotRun(node.expression, i + 1))

\* visit_expression_binding
visit_expression_binding(ix, st, node, enabled) ==
    IF ~enabled \/ node.expression = <<>>
    THEN st
    ELSE scan_expression(ix, st, node, 1)

\* ^(\.\.+)/(.+)$ on the target path, run = its leading dots
visit_property_match(ix, st, node, run) ==
    IF run >= 2 /\ run + 1 < Len(node.target_path) /\ node.target_path[run + 1] = "/"
    THEN validate_relative_reference(
             ix, st, node.path,
             extract_component_reference(
                 SubSeq(node.target_path, run + 2, Len(node.target_path))),
             run - 1, node.target_path, "property binding")
    ELSE st

\* visit_property_binding
visit_property_binding(ix, st, node, enabled) ==
    IF ~enabled \/ node.target_path = <<>> \/ Head(node.target_path) # "."
    THEN st
    ELSE visit_property_match(ix, st, node, DotRun(node.target_path, 1))

\* the tokens of a script that are neither quotes nor letters
IsQuote(t) == t \in {"'", "\""}
IsWord(t) == t \notin ({".", "(", ")", "'", "\"", "\n", " ", "=", "/", "{", "}", "[", "]"} \cup Digits)
\* the first position from i on that holds a quote, 0 when there is none
NextQuote(s, i) ==
    IF \E j \in i..Len(s) : IsQuote(s[j])
    THEN CHOOSE j \in i..Len(s) : IsQuote(s[j]) /\ \A h \in i..(j - 1) : ~IsQuote(s[h])
    ELSE 0

\* _find_sibling
SiblingHit(ix, siblings, component_path, sibling_name, i) ==
    /\ siblings[i] # component_path
    /\ ChildHit(ix, siblings, sibling_name, i)
first_sibling(ix, siblings, component_path, sibling_name) ==
    IF \E i \in 1..Len(siblings) : SiblingHit(ix, siblings, component_path, sibling_name, i)
    THEN Some(siblings[CHOOSE i \in 1..Len(siblings) :
                           /\ SiblingHit(ix, siblings, component_path, sibling_name, i)
                           /\ \A j \in 1..(i - 1) :
                                  ~SiblingHit(ix, siblings, component_path, sibling_name, j)])
    ELSE None
siblings_of(ix, parent) ==
    IF MapGet(ix.children_map, parent).some THEN MapGet(ix.children_map, parent).v ELSE <<>>
find_sibling(ix, component_path, sibling_name) ==
    IF ~Truthy(MapGet(ix.parent_map, component_path))
    THEN None
    ELSE first_sibling(ix, siblings_of(ix, MapGet(ix.parent_map, component_path).v),
                       component_path, sibling_name)

SiblingMessage(script_path, sibling_name) ==
    script_path \o <<": Script references non-existent sibling ", "component '">>
        \o sibling_name \o <<"'">>
BeyondRootMessage(script_path, chain) ==
    script_path \o <<": Navigation chain goes ", "beyond root", ": ">> \o chain
NotFoundMessage(script_path, arg, how, chain) ==
    script_path \o <<": Component '">> \o arg \o <<"' ", how, " in: ">> \o chain

\* the record of the validation of a script reference: the components the
\* navigation stood on, the first one the component it started from
script_entry(ref, outcome, cursors) ==
    [ref |-> ref, outcome |-> outcome, descended |-> outcome # "beyond root",
     cursors |-> cursors]
report_script(st, message, ref, outcome, cursors) ==
    [errors |-> Append(st.errors, message),
     trace |-> Append(st.trace, script_entry(ref, outcome, cursors))]
pass_script(st, ref, cursors) ==
    [st EXCEPT !.trace = Append(@, script_entry(ref, "resolved", cursors))]

\* _validate_sibling_reference
sibling_resolved(st, ref, component_path, resolved) ==
    IF ~Truthy(resolved)
    THEN report_script(st, SiblingMessage(ref.source_path, ref.component_ref), ref,
                       "non-existent sibling", <<component_path>>)
    ELSE pass_script(st, ref, <<component_path, resolved.v>>)
sibling_from(ix, st, ref, component_path) ==
    sibling_resolved(st, ref, component_path,
                     find_sibling(ix, component_path, ref.component_ref))
validate_sibling_reference(ix, st, script_path, sibling_name) ==
    sibling_from(ix, st, Reference(script_path, sibling_name, 0, "sibling call"),
                 get_component_path_from_source(ix, script_path))

\* self\.getSibling\(['"]([^'"]+)['"]\) matches at position i
SiblingCallAt(script, i) ==
    /\ i + 7 <= Len(script)
    /\ SubSeq(script, i, i + 3) = <<"self", ".", "getSibling", "(">>
    /\ IsQuote(script[i + 4])
    /\ NextQuote(script, i + 5) > i + 5
    /\ NextQuote(script, i + 5) < Len(script)
    /\ script[NextQuote(script, i + 5) + 1] = ")"

\* "for match in re.finditer(sibling_pattern, script)"
RECURSIVE scan_siblings(_, _, _, _, _)
scan_sibling_match(ix, st, script_path, script, i, close) ==
    scan_siblings(ix,
                  validate_sibling_reference(ix, st, script_path,
                                             SubSeq(script, i + 5, close - 1)),
                  script_path, script, close + 2)
scan_siblings(ix, st, script_path, script, i) ==
    IF i > Len(script)
    THEN st
    ELSE IF SiblingCallAt(script, i)
    THEN scan_sibling_match(ix, st, script_path, script, i, NextQuote(script, i + 5))
    ELSE scan_siblings(ix, st, script_path, script, i + 1)

\* (?:\.parent)* from position j: the position behind the parents taken
RECURSIVE ParentsEnd(_, _)
ParentsEnd(s, j) ==
    IF /\ j + 1 <= Len(s)
       /\ s[j] = "."
       /\ s[j + 1] = "parent"
       /\ ~(j + 2 <= Len(s) /\ s[j + 2] = "(")
    THEN ParentsEnd(s, j + 2)
    ELSE j
\* \.[a-zA-Z]+\([^)]*\) at position j: the position of its ")", 0 without a match
CallEnd(s, j) ==
    IF j + 2 <= Len(s) /\ s[j] = "." /\ IsWord(s[j + 1]) /\ s[j + 2] = "("
    THEN NextPos(s, ")", j + 3)
    ELSE 0
\* (?:...)+ from position j: the position behind the calls taken
RECURSIVE CallsEnd(_, _)
CallsEnd(s, j) == IF CallEnd(s, j) # 0 THEN CallsEnd(s, CallEnd(s, j) + 1) ELSE j
\* chain_pattern matches at position i
ChainAt(script, i) ==
    /\ script[i] = "self"
    /\ CallsEnd(script, ParentsEnd(script, i + 1)) > ParentsEnd(script, i + 1)
ChainEnd(script, i) == CallsEnd(script, ParentsEnd(script, i + 1)) - 1

\* chain.count('.parent')
RECURSIVE CountParents(_)
CountParents(chain) ==
    IF Len(chain) < 2
    THEN 0
    ELSE IF SubSeq(chain, 1, 2) = <<".", "parent">>
    THEN 1 + CountParents(SubSeq(chain, 3, Len(chain)))
    ELSE CountParents(Tail(chain))
\* chain.replace('.parent', '')
RECURSIVE RemoveParents(_)
RemoveParents(chain) ==
    IF Len(chain) < 2
    THEN chain
    ELSE IF SubSeq(chain, 1, 2) = <<".", "parent">>
    THEN RemoveParents(SubSeq(chain, 3, Len(chain)))
    ELSE <<Head(chain)>> \o RemoveParents(Tail(chain))

\* method_pattern matches at position i
MethodAt(s, i) ==
    /\ i + 6 <= Len(s)
    /\ s[i] = "."
    /\ IsWord(s[i + 1])
    /\ s[i + 2] = "("
    /\ IsQuote(s[i + 3])
    /\ NextQuote(s, i + 4) > i + 4
    /\ NextQuote(s, i + 4) < Len(s)
    /\ s[NextQuote(s, i + 4) + 1] = ")"
\* re.finditer(method_pattern, chain_without_parents): <<method, arg>> pairs
RECURSIVE Methods(_, _)
Methods(s, i) ==
    IF i > Len(s)
    THEN <<>>
    ELSE IF MethodAt(s, i)
    THEN <<<<s[i + 1], SubSeq(s, i + 4, NextQuote(s, i + 4) - 1)>>>>
             \o Methods(s, NextQuote(s, i + 4) + 2)
    ELSE Methods(s, i + 1)

\* the navigation of one chain: the two loops of _validate_chained_navigation
Navigation(outcome, cursors, arg) == [outcome |-> outcome, cursors |-> cursors, arg |-> arg]
RECURSIVE chain_methods(_, _, _, _)
chain_moved(ix, methods, k, cursors, found, failure) ==
    IF ~Truthy(found)
    THEN Navigation(failure, cursors, methods[k][2])
    ELSE chain_methods(ix, methods, k + 1, Append(cursors, found.v))
chain_methods(ix, methods, k, cursors) ==
    IF k > Len(methods)
    THEN Navigation("resolved", cursors, <<>>)
    ELSE IF methods[k][1] = "getSibling"
    THEN chain_moved(ix, methods, k, cursors,
                     find_sibling(ix, cursors[Len(cursors)], methods[k][2]),
                     "not found as sibling")
    ELSE IF methods[k][1] = "getChild"
    THEN chain_moved(ix, methods, k, cursors,
                     find_child(ix, cursors[Len(cursors)], methods[k][2]),
                     "not found as child")
    ELSE chain_methods(ix, methods, k + 1, cursors)
RECURSIVE chain_parents(_, _, _, _)
chain_parent(ix, methods, n, cursors, parent) ==
    IF ~Truthy(parent)
    THEN Navigation("beyond root", cursors, <<>>)
    ELSE chain_parents(ix, methods, n - 1, Append(cursors, parent.v))
chain_parents(ix, methods, n, cursors) ==
    IF n = 0
    THEN chain_methods(ix, methods, 1, cursors)
    ELSE chain_parent(ix, methods, n, cursors, MapGet(ix.parent_map, cursors[Len(cursors)]))

\* the violation of a navigation, when it has one
chain_report(st, ref, nav) ==
    IF nav.outcome = "resolved"
    THEN pass_script(st, ref, nav.cursors)
    ELSE IF nav.outcome = "beyond root"
    THEN report_script(st, BeyondRootMessage(ref.source_path, ref.component_ref), ref,
                       nav.outcome, nav.cursors)
    ELSE report_script(st, NotFoundMessage(ref.source_path, nav.arg, nav.outcome,
                                           ref.component_ref),
                       ref, nav.outcome, nav.cursors)
\* the body of "for match in re.finditer(chain_pattern, script)"
validate_chain(ix, st, script_path, chain, methods) ==
    IF methods = <<>>
    THEN st
    ELSE chain_report(st, Reference(script_path, chain, CountParents(chain), "chain"),
                      chain_parents(ix, methods, CountParents(chain),
                                    <<get_component_path_from_source(ix, script_path)>>))

\* _validate_chained_navigation, from position i of the script
RECURSIVE validate_chained_navigation(_, _, _, _, _)
chained_match(ix, st, script_path, script, i, last) ==
    validate_chained_navigation(
        ix,
        validate_chain(ix, st, script_path, SubSeq(script, i, last),
                       Methods(RemoveParents(SubSeq(script, i, last)), 1)),
        script_path, script, last + 1)
validate_chained_navigation(ix, st, script_path, script, i) ==
    IF i > Len(script)
    THEN st
    ELSE IF ChainAt(script, i)
    THEN chained_match(ix, st, script_path, script, i, ChainEnd(script, i))
    ELSE validate_chained_navigation(ix, st, script_path, script, i + 1)

\* _validate_script_references
validate_script_references(ix, st, script_node, enabled) ==
    IF ~enabled \/ script_node.script = <<>>
    THEN st
    ELSE validate_chained_navigation(
             ix, scan_siblings(ix, st, script_node.path, script_node.script, 1),
             script_node.path, script_node.script, 1)

\* visit_event_handler, visit_message_handler, visit_custom_method, visit_transform
ScriptNodeTypes == {"event_handler", "message_handler", "custom_method", "transform"}

\* node.accept(self) for the node types of the pass
accept(ix, st, node, expressions, property_bindings, scripts) ==
    IF node.node_type = "expression_binding"
    THEN visit_expression_binding(ix, st, node, expressions)
    ELSE IF node.node_type = "property_binding"
    THEN visit_property_binding(ix, st, node, property_bindings)
    ELSE IF node.node_type \in ScriptNodeTypes
    THEN validate_script_references(ix, st, node, scripts)
    ELSE st

-----------------------------------------------------------------------------
(* Passes of the rule over the nodes of a family of views *)

\* the view: root with the children c1 and c2, one of them with a child g1
\* of its own, and one binding on the property props.text of the owner or
\* one event script of the owner
RootPath == <<"root", ".", "root">>
ChildPath(parent_path, index, name) ==
    parent_path \o <<".", "children", "[", ToString(index), "]", ".">> \o name
PathOfC1(v) == ChildPath(RootPath, 0, v.c1)
PathOfC2(v) == ChildPath(RootPath, 1, v.c2)
PathOfG1(v) ==
    ChildPath(IF v.under = "c1" THEN PathOfC1(v) ELSE PathOfC2(v), 0, v.g1)
OwnerPath(v) ==
    IF v.owner = "root" THEN RootPath
    ELSE IF v.owner = "c1" THEN PathOfC1(v)
    ELSE IF v.owner = "c2" THEN PathOfC2(v)
    ELSE PathOfG1(v)
\* the depth of the owner below the root
OwnerDepth(v) == IF v.owner = "root" THEN 0 ELSE IF v.owner = "g1" THEN 2 ELSE 1

RECURSIVE JoinNames(_)
JoinNames(names) ==
    IF Len(names) = 1 THEN names[1] ELSE names[1] \o <<"/">> \o JoinNames(Tail(names))
RECURSIVE Dots(_)
Dots(d) == IF d = 0 THEN <<>> ELSE <<".">> \o Dots(d - 1)
\* '../Name.props.text' with d dots
TargetPath(d, names) == Dots(d) \o <<"/">> \o JoinNames(names) \o <<".", "props", ".", "text">>

\* "self.parent.getChild('A').getSibling('B')" with k parents
RECURSIVE Parents(_)
Parents(k) == IF k = 0 THEN <<>> ELSE <<".", "parent">> \o Parents(k - 1)
RECURSIVE Calls(_, _)
Calls(names, calls) ==
    IF names = <<>>
    THEN <<>>
    ELSE <<".", Head(calls), "(", "'">> \o Head(names) \o <<"'", ")">>
             \o Calls(Tail(names), Tail(calls))
Chain(k, names, calls) == <<"self">> \o Parents(k) \o Calls(names, calls)
\* the script of the view: its chain, then a second statement
SecondChain == Chain(0, <<Tok("B")>>, <<"getChild">>)
ScriptOf(v) ==
    <<"x", " ", "=", " ">> \o Chain(v.dots - 2, v.ref, v.calls) \o <<"\n">> \o SecondChain

ComponentNode(path, name) == [node_type |-> "component", path |-> path, name |-> name]
BindingNode(v) ==
    IF v.kind = "script"
    THEN [node_type |-> "event_handler",
          path |-> OwnerPath(v) \o <<".", "events", ".", "component", ".", "onActionPerformed">>,
          script |-> ScriptOf(v)]
    ELSE IF v.kind = "expression"
    THEN [node_type |-> "expression_binding",
          path |-> OwnerPath(v) \o <<".", "propConfig", ".", "props", ".", "text">>,
          expression |-> <<"{">> \o TargetPath(v.dots, v.ref) \o <<"}">>]
    ELSE [node_type |-> "property_binding",
          path |-> OwnerPath(v) \o <<".", "propConfig", ".", "props", ".", "text">>,
          target_path |-> TargetPath(v.dots, v.ref)]

\* the node list of the view: the components in document order, the binding
NodesOf(v) ==
    IF v.under = "c1"
    THEN << ComponentNode(RootPath, Tok("root")),
            ComponentNode(PathOfC1(v), v.c1),
            ComponentNode(PathOfG1(v), v.g1),
            ComponentNode(PathOfC2(v), v.c2),
            BindingNode(v) >>
    ELSE << ComponentNode(RootPath, Tok("root")),
            ComponentNode(PathOfC1(v), v.c1),
            ComponentNode(PathOfC2(v), v.c2),
            ComponentNode(PathOfG1(v), v.g1),
            BindingNode(v) >>

\* display names of c1; a component may be called as a key of the view is
DisplayNames == {Tok("A"), Tok("propConfig")}
\* display names of c2 and g1
OtherNames == {Tok("A"), Tok("B")}
\* most leading dots of a token
MaxDots == 4
References == {<<Tok("A")>>, <<Tok("B")>>, <<Tok("A"), Tok("B")>>, <<Tok("propConfig"), Tok("A")>>}
\* the calls of a script chain, one per name of the reference
CallLists(n) == [1..n -> {"getChild", "getSibling"}]
BindingViews ==
    [c1 : DisplayNames, c2 : OtherNames, g1 : OtherNames, under : {"c1", "c2"},
     owner : {"root", "c1", "c2", "g1"},
     kind : {"expression", "property binding"},
     dots : 2..MaxDots,
     ref : References,
     calls : {<<>>}]
\* a script view: dots - 2 is the number of its .parent steps
ScriptViews ==
    {v \in [c1 : DisplayNames, c2 : OtherNames, g1 : OtherNames, under : {"c1", "c2"},
            owner : {"root", "c1", "c2", "g1"},
            kind : {"script"},
            dots : 2..MaxDots,
            ref : References,
            calls : CallLists(1) \cup CallLists(2)] : Len(v.calls) = Len(v.ref)}
Views == BindingViews \cup ScriptViews

\* most passes of one rule object
MaxPasses == 2
\* display names of c1 in the views of the repeated passes: a name with a
\* dot, and a name that is a key of the view as well
PassNames == {Tok("A"), Tok("events"), <<"a", ".", "b">>}
PassReferences == {<<Tok("B")>>, <<Tok("A"), Tok("B")>>}
\* the views with a relative token of 2..MaxDots - 1 dots
TokenViews ==
    [c1 : PassNames, c2 : {Tok("B")}, g1 : OtherNames, under : {"c1", "c2"},
     owner : {"c1", "g1"},
     kind : {"expression", "property binding"},
     dots : 2..(MaxDots - 1),
     ref : PassReferences,
     calls : {<<>>}]
\* the script view of a token view: self, a .parent for each dot after the
\* first, a getChild for each name
ChainView(v) ==
    [v EXCEPT !.kind = "script", !.dots = v.dots + 1,
              !.calls = [i \in 1..Len(v.ref) |-> "getChild"]]
PassViews == TokenViews \cup {ChainView(v) : v \in TokenViews}
\* the constructor arguments of the runs: at most one validation switched off
RuleConfigurations ==
    {<<TRUE, TRUE, TRUE>>, <<FALSE, TRUE, TRUE>>, <<TRUE, FALSE, TRUE>>, <<TRUE, TRUE, FALSE>>}

\* the tree of the view, by position: the components and their parents
Components == {"root", "c1", "c2", "g1"}
NameOf(v, c) ==
    IF c = "root" THEN Tok("root")
    ELSE IF c = "c1" THEN v.c1
    ELSE IF c = "c2" THEN v.c2
    ELSE v.g1
HasParent(c) == c # "root"
ParentOf(v, c) == IF c = "g1" THEN v.under ELSE "root"
ChildrenOf(v, c) == {d \in Components : HasParent(d) /\ ParentOf(v, d) = c}
DepthOf(c) == IF c = "root" THEN 0 ELSE IF c = "g1" THEN 2 ELSE 1
\* the ancestor n levels above c (n at most the depth of c)
RECURSIVE AncestorOf(_, _, _)
AncestorOf(v, c, n) == IF n = 0 THEN c ELSE AncestorOf(v, ParentOf(v, c), n - 1)
\* the components a chain of children named names[1], names[2], ... leads to from c
RECURSIVE ChainEnds(_, _, _)
ChainEnds(v, c, names) ==
    IF names = <<>>
    THEN {c}
    ELSE UNION {ChainEnds(v, d, Tail(names)) :
                    d \in {e \in ChildrenOf(v, c) : NameOf(v, e) = Head(names)}}

\* the rule object after __init__, before any pass
RuleIdle ==
    /\ nodes = <<>>
    /\ component_tree = <<>>
    /\ component_by_name = <<>>
    /\ parent_map = <<>>
    /\ children_map = <<>>
    /\ errors = <<>>
    /\ rv_pc = "idle"
    /\ rv_idx = 0
    /\ rv_pass = 0
    /\ rv_trace = <<>>

RuleConstructed == view = None /\ RuleIdle

TheIndex ==
    [component_tree |-> component_tree, component_by_name |-> component_by_name,
     parent_map |-> parent_map, children_map |-> children_map]

-----------------------------------------------------------------------------
(* The document and the fixes of the fix-engine runs *)

\* '{../badButton.props.text}'
RefText == <<"{", ".", ".", "/", "badButton", ".", "props", ".", "text", "}">>

Component(name, props) ==
    Dict(<< <<K("meta"), Dict(<< <<K("name"), Str(Tok(name))>> >>)>>,
            <<K("props"), Dict(props)>>,
            <<K("type"), Str(Tok("ia.display.label"))>> >>)

\* make_view_json(children=[make_component('badButton'),
\*     make_component('MyLabel', props={'text': '{../badButton.props.text}'})])
ViewJson ==
    Dict(<< <<K("root"),
              Dict(<< <<K("children"),
                        List(<< Component("badButton", <<>>),
                                Component("MyLabel", << <<K("text"), Str(RefText)>> >>) >>)>>,
                      <<K("meta"), Dict(<< <<K("name"), Str(Tok("root"))>> >>)>>,
                      <<K("props"), Dict(<<>>)>>,
                      <<K("type"), Str(Tok("ia.container.flex"))>> >>)>> >>)

NamePath(i) == <<K("root"), K("children"), I(i), K("meta"), K("name")>>
TextPath(i) == <<K("root"), K("children"), I(i), K("props"), K("text")>>
MissingKeyPath == <<K("root"), K("nokey"), K("x")>>
OutOfRangePath == <<K("root"), K("children"), I(5), K("meta"), K("name")>>
IntoScalarPath == <<K("root"), K("children"), I(0), K("meta"), K("name"), K("x")>>
WrongTypePath == <<K("root"), K("children"), K("meta")>>

\* The fix objects a rule pass may hand to the engine; a fix id is the object's
\* identity (two ids with equal fields are two objects).
FixPool ==
    << Fix("NamePatternRule", <<SetOp(NamePath(0), Str(Tok("BadButton")))>>, TRUE, None),
       Fix("NamePatternRule",
           <<SetOp(NamePath(0), Str(Tok("BadButton"))),
             ReplaceOp(TextPath(1), Tok("badButton"), Tok("BadButton"))>>,
           FALSE, Some(Tok("Updates 1 reference(s)"))),
       Fix("OtherRule",
           <<SetOp(NamePath(0), Str(Tok("OtherName"))),
             ReplaceOp(TextPath(1), Tok("text"), Tok("value"))>>,
           TRUE, None),
       Fix("OtherRule",
           <<ReplaceOp(TextPath(1), Tok("props"), Tok("custom")),
             SetOp(NamePath(1), Str(Tok("Label2")))>>,
           FALSE, None),
       Fix("OtherRule",
           <<SetOp(TextPath(1), Str(Tok("plain"))),
             ReplaceOp(MissingKeyPath, Tok("a"), Tok("b"))>>,
           TRUE, None),
       Fix("NamePatternRule",
           <<SetOp(TextPath(0), Str(Tok("hello"))),
             SetOp(OutOfRangePath, Str(Tok("Far")))>>,
           TRUE, None),
       Fix("OtherRule", <<SetOp(IntoScalarPath, Str(Tok("x")))>>, FALSE, Some(<<>>)),
       Fix("NamePatternRule", <<SetOp(WrongTypePath, Str(Tok("x")))>>, TRUE, None),
       Fix("OtherRule",
           <<SetOp(TextPath(0), Str(Tok("one"))),
             SetOp(TextPath(0), Str(Tok("two")))>>,
           TRUE, None) >>

FixIds == DOMAIN FixPool

\* longest fix list handed to the engine
MaxFixes == 3

\* the lists of at most MaxFixes distinct fix objects
FixLists(n) ==
    {l \in UNION {[1..k -> FixIds] : k \in 0..n} :
        \A i, j \in 1..Len(l) : i # j => l[i] # l[j]}

-----------------------------------------------------------------------------
(* fix_engine.py *)

FixConflict(a, b, path) == [fix_a |-> a, fix_b |-> b, conflicting_path |-> path]
AppliedFix(f, ok, reason) == [fix |-> f, applied |-> ok, skip_reason |-> reason]
FixResult(applied, skipped, conflicts) ==
    [applied |-> applied, skipped |-> skipped, conflicts |-> conflicts]

\* repr of one segment of a list: 'key' or 0
ReprSeg(seg) == IF seg[1] = "k" THEN <<"'">> \o seg[2] \o <<"'">> ELSE <<ToString(seg[2])>>

RECURSIVE ReprSegs(_)
ReprSegs(path) ==
    IF path = <<>>
    THEN <<>>
    ELSE IF Len(path) = 1
    THEN ReprSeg(path[1])
    ELSE ReprSeg(path[1]) \o <<", ">> \o ReprSegs(Tail(path))

\* path_key = str(operation.json_path)
path_key(json_path) == <<"[">> \o ReprSegs(json_path) \o <<"]">>

\* faulty variant: without "existing_fix is not fix"
FirstClaim_any_fix(claimed_paths, key, f) ==
    LET hit(i) == claimed_paths[i][1] = key
    IN  IF \E i \in 1..Len(claimed_paths) : hit(i)
        THEN CHOOSE i \in 1..Len(claimed_paths) :
                 hit(i) /\ \A j \in 1..(i - 1) : ~hit(j)
        ELSE 0

\* for existing_path_key, existing_fix in claimed_paths: the first entry with
\* the same key and another fix (0: the loop ends without break)
FirstClaim(claimed_paths, key, f) ==
    LET hit(i) == claimed_paths[i][1] = key /\ claimed_paths[i][2] # f
    IN  IF \E i \in 1..Len(claimed_paths) : hit(i)
        THEN CHOOSE i \in 1..Len(claimed_paths) :
                 hit(i) /\ \A j \in 1..(i - 1) : ~hit(j)
        ELSE 0

\* faulty variant: the pair of a conflict the other way round
detect_claim_swapped(st, f, operation, key, i) ==
    IF i # 0
    THEN [st EXCEPT !.conflicts =
             Append(@, FixConflict(f, st.claimed_paths[i][2], operation.json_path))]
    ELSE [st EXCEPT !.claimed_paths = Append(@, <<key, f>>)]

\* body of "for operation in fix.operations"
\* i: the entry the inner loop breaks at, or 0
detect_claim(st, f, operation, key, i) ==
    IF i # 0
    THEN [st EXCEPT !.conflicts =
             Append(@, FixConflict(st.claimed_paths[i][2], f, operation.json_path))]
    ELSE [st EXCEPT !.claimed_paths = Append(@, <<key, f>>)]

detect_operation(st, f, operation) ==
    detect_claim(st, f, operation, path_key(operation.json_path),
                 FirstClaim(st.claimed_paths, path_key(operation.json_path), f))

RECURSIVE detect_operations(_, _, _)
detect_operations(st, f, ops) ==
    IF ops = <<>>
    THEN st
    ELSE detect_operations(detect_operation(st, f, Head(ops)), f, Tail(ops))

RECURSIVE detect_fixes(_, _)
detect_fixes(st, fixlist) ==
    IF fixlist = <<>>
    THEN st
    ELSE detect_fixes(detect_operations(st, Head(fixlist), FixPool[Head(fixlist)].operations),
                      Tail(fixlist))

detect_conflicts(fixlist) ==
    detect_fixes([conflicts |-> <<>>, claimed_paths |-> <<>>], fixlist).conflicts

\* faulty variant: the first fix of each pair is the one flagged
flagged_fixes_first(conflicts) == {conflicts[i].fix_a : i \in 1..Len(conflicts)}

\* conflicting_fixes.add(id(conflict.fix_b)) for conflict in conflicts
flagged_fixes(conflicts) == {conflicts[i].fix_b : i \in 1..Len(conflicts)}

InList(x, list) == \E i \in 1..Len(list) : list[i] = x

unsafe_reason(fix) ==
    IF Truthy(fix.safety_notes)
    THEN <<"unsafe", ": ">> \o fix.safety_notes.v
    ELSE <<"unsafe", " fix (use --fix-unsafe)">>

\* faulty variant: no safety check
apply_skip_reason_no_safety(f, so, rf, conflicting) ==
    IF Truthy(rf) /\ ~InList(FixPool[f].rule_name, rf.v)
    THEN <<"filtered", " by --fix-rules">>
    ELSE IF f \in conflicting
    THEN <<"conflicts", " with another fix">>
    ELSE <<>>

\* faulty variant: the safety check before the rule filter
apply_skip_reason_safety_first(f, so, rf, conflicting) ==
    IF so /\ ~FixPool[f].is_safe
    THEN unsafe_reason(FixPool[f])
    ELSE IF Truthy(rf) /\ ~InList(FixPool[f].rule_name, rf.v)
    THEN <<"filtered", " by --fix-rules">>
    ELSE IF f \in conflicting
    THEN <<"conflicts", " with another fix">>
    ELSE <<>>

\* faulty variant: the flagged fixes are not skipped
apply_skip_reason_no_conflicts(f, so, rf, conflicting) ==
    IF Truthy(rf) /\ ~InList(FixPool[f].rule_name, rf.v)
    THEN <<"filtered", " by --fix-rules">>
    ELSE IF so /\ ~FixPool[f].is_safe
    THEN unsafe_reason(FixPool[f])
    ELSE <<>>

\* the three checks at the head of the loop of apply_fixes: the skip reason, or ""
apply_skip_reason(f, so, rf, conflicting) ==
    IF Truthy(rf) /\ ~InList(FixPool[f].rule_name, rf.v)
    THEN <<"filtered", " by --fix-rules">>
    ELSE IF so /\ ~FixPool[f].is_safe
    THEN unsafe_reason(FixPool[f])
    ELSE IF f \in conflicting
    THEN <<"conflicts", " with another fix">>
    ELSE <<>>

\* s: the outcome of set_value
set_value_outcome(doc, s) ==
    IF s.ok THEN [err |-> NoException, doc |-> s.val] ELSE [err |-> s.err, doc |-> doc]

\* r: the outcome of string_replace_at (its bool is dropped)
string_replace_outcome(r) == [err |-> r.err, doc |-> r.doc]

\* one operation of _apply_single_fix: [err, doc]
apply_operation(doc, operation) ==
    IF operation.operation = SET_VALUE
    THEN set_value_outcome(doc, set_value(doc, operation.json_path, operation.new_value))
    ELSE IF operation.operation = STRING_REPLACE
    THEN string_replace_outcome(
             string_replace_at(doc, operation.json_path,
                               operation.old_substring, operation.new_substring))
    ELSE [err |-> NoException, doc |-> doc]

RECURSIVE apply_operations(_, _, _)
\* r: the outcome of the operation just executed
apply_operations_next(r, rest, n) ==
    IF r.err # NoException
    THEN [err |-> r.err, doc |-> r.doc, done |-> n]
    ELSE apply_operations(r.doc, rest, n + 1)

apply_operations(doc, ops, n) ==
    IF ops = <<>>
    THEN [err |-> NoException, doc |-> doc, done |-> n]
    ELSE apply_operations_next(apply_operation(doc, Head(ops)), Tail(ops), n)

\* [err, doc, done]: the exception that ended the fix (or NoException), the
\* document afterwards, the number of operations executed
apply_single_fix(doc, fix) == apply_operations(doc, fix.operations, 0)

\* except (KeyError, TypeError, ValueError) as e
Caught == {"KeyError", "TypeError", "ValueError"}

\* faulty variant: a fix whose operation raised is recorded nowhere
apply_fixes_try_drops_failed(st, f, r) ==
    IF r.err = NoException
    THEN [doc |-> r.doc,
          result |-> [st.result EXCEPT !.applied = Append(@, AppliedFix(f, TRUE, <<>>))],
          raised |-> NoException, done |-> r.done]
    ELSE IF r.err \in Caught
    THEN [doc |-> r.doc, result |-> st.result, raised |-> NoException, done |-> r.done]
    ELSE [doc |-> r.doc, result |-> st.result, raised |-> r.err, done |-> r.done]

\* one iteration of "for fix in fixes" of apply_fixes, on
\* st = [doc, result, raised, done]
\* the try statement of apply_fixes; r: the outcome of self._apply_single_fix(fix)
apply_fixes_try(st, f, r) ==
    IF r.err = NoException
    THEN [doc |-> r.doc,
          result |-> [st.result EXCEPT !.applied = Append(@, AppliedFix(f, TRUE, <<>>))],
          raised |-> NoException, done |-> r.done]
    ELSE IF r.err \in Caught
    THEN [doc |-> r.doc,
          result |-> [st.result EXCEPT !.skipped =
                         Append(@, AppliedFix(f, FALSE, <<"error", ": ", r.err>>))],
          raised |-> NoException, done |-> r.done]
    ELSE [doc |-> r.doc, result |-> st.result, raised |-> r.err, done |-> r.done]

apply_fixes_checked(st, f, reason) ==
    IF reason # <<>>
    THEN [st EXCEPT !.result.skipped = Append(@, AppliedFix(f, FALSE, reason)),
                    !.done = 0]
    ELSE apply_fixes_try(st, f, apply_single_fix(st.doc, FixPool[f]))

apply_fixes_iteration(st, f, so, rf, conflicting) ==
    apply_fixes_checked(st, f, apply_skip_reason(f, so, rf, conflicting))

\* faulty variant: the preview does not look at the conflicts
dry_run_skip_reason_no_conflicts(f, so, rf, conflicting) ==
    IF Truthy(rf) /\ ~InList(FixPool[f].rule_name, rf.v)
    THEN <<"filtered", " by --fix-rules">>
    ELSE IF so /\ ~FixPool[f].is_safe
    THEN unsafe_reason(FixPool[f])
    ELSE <<>>

dry_run_skip_reason(f, so, rf, conflicting) ==
    IF Truthy(rf) /\ ~InList(FixPool[f].rule_name, rf.v)
    THEN <<"filtered", " by --fix-rules">>
    ELSE IF so /\ ~FixPool[f].is_safe
    THEN unsafe_reason(FixPool[f])
    ELSE IF f \in conflicting
    THEN <<"conflicts", " with another fix">>
    ELSE <<>>

\* one iteration of "for fix in fixes" of dry_run, on st = [doc, result]
\* faulty variant: the preview executes the fix
dry_run_checked_writes(st, f, reason) ==
    IF reason # <<>>
    THEN [st EXCEPT !.result.skipped = Append(@, AppliedFix(f, FALSE, reason))]
    ELSE [doc |-> apply_single_fix(st.doc, FixPool[f]).doc,
          result |-> [st.result EXCEPT !.applied = Append(@, AppliedFix(f, TRUE, <<>>))]]

dry_run_checked(st, f, reason) ==
    IF reason # <<>>
    THEN [st EXCEPT !.result.skipped = Append(@, AppliedFix(f, FALSE, reason))]
    ELSE [st EXCEPT !.result.applied = Append(@, AppliedFix(f, TRUE, <<>>))]

dry_run_iteration(st, f, so, rf, conflicting) ==
    dry_run_checked(st, f, dry_run_skip_reason(f, so, rf, conflicting))

RECURSIVE dry_run_loop(_, _, _, _, _)
dry_run_loop(st, fixlist, so, rf, conflicting) ==
    IF fixlist = <<>>
    THEN st
    ELSE dry_run_loop(dry_run_iteration(st, Head(fixlist), so, rf, conflicting),
                      Tail(fixlist), so, rf, conflicting)

\* [doc, result]: the document after the call and the FixResult returned
dry_run_with(doc, fixlist, so, rf, conflicts) ==
    dry_run_loop([doc |-> doc, result |-> FixResult(<<>>, <<>>, conflicts)],
                 fixlist, so, rf, flagged_fixes(conflicts))

dry_run(doc, fixlist, so, rf) ==
    dry_run_with(doc, fixlist, so, rf, detect_conflicts(fixlist))

-----------------------------------------------------------------------------
(* The engine's runs: one apply_fixes call, stepped through its loop, and one
   dry_run call on the same arguments *)

RuleFilters ==
    {None, Some(<<>>), Some(<<"NamePatternRule">>),
     Some(<<"OtherRule", "NamePatternRule">>)}

Init ==
    /\ json_data = ViewJson
    /\ fixes \in FixLists(MaxFixes)
    /\ safe_only \in BOOLEAN
    /\ rule_filter \in RuleFilters
    /\ pc = "idle"
    /\ idx = 0
    /\ result = FixResult(<<>>, <<>>, <<>>)
    /\ conflicting_fixes = {}
    /\ raised = NoException
    /\ written = <<>>
    /\ dry_result = None
    /\ dry_doc = None
    /\ model_to_json = PathTranslator(json_data).model_to_json
    /\ component_name_paths = PathTranslator(json_data).component_name_paths
    /\ pt_pc = "ready"
    /\ lookup = None
    /\ RuleConstructed
    /\ validate_expressions = TRUE
    /\ validate_property_bindings = TRUE
    /\ validate_scripts = TRUE

\* apply_fixes, lines 64-71: the result, the conflicts, the flagged set
ApplyFixesEnter ==
    /\ pc = "idle"
    /\ pc' = "loop"
    /\ idx' = 1
    /\ result' = FixResult(<<>>, <<>>, detect_conflicts(fixes))
    /\ conflicting_fixes' = flagged_fixes(detect_conflicts(fixes))
    /\ UNCHANGED <<pt_vars, rule_vars>>
    /\ UNCHANGED <<json_data, fixes, safe_only, rule_filter, raised, written,
                   dry_result, dry_doc>>

\* apply_fixes, lines 73-100: one iteration of the loop
ApplyFixesCommit(st) ==
    /\ json_data' = st.doc
    /\ result' = st.result
    /\ raised' = st.raised
    /\ written' = written \o [i \in 1..st.done |-> <<fixes[idx], i>>]
    /\ pc' = IF st.raised = NoException THEN "loop" ELSE "raised"

ApplyFixesIteration ==
    /\ pc = "loop"
    /\ idx <= Len(fixes)
    /\ ApplyFixesCommit(
           apply_fixes_iteration(
               [doc |-> json_data, result |-> result, raised |-> NoException, done |-> 0],
               fixes[idx], safe_only, rule_filter, conflicting_fixes))
    /\ idx' = idx + 1
    /\ UNCHANGED <<pt_vars, rule_vars>>
    /\ UNCHANGED <<fixes, safe_only, rule_filter, conflicting_fixes, dry_result, dry_doc>>

\* apply_fixes, line 102: return result
ApplyFixesReturn ==
    /\ pc = "loop"
    /\ idx > Len(fixes)
    /\ pc' = "done"
    /\ UNCHANGED <<pt_vars, rule_vars>>
    /\ UNCHANGED <<json_data, fixes, safe_only, rule_filter, idx, result,
                   conflicting_fixes, raised, written, dry_result, dry_doc>>

DryRunCommit(r) ==
    /\ json_data' = r.doc
    /\ dry_result' = Some(r.result)

\* dry_run, the whole call, before or after apply_fixes
DryRun ==
    /\ pc \in {"idle", "done"}
    /\ dry_result = None
    /\ DryRunCommit(dry_run(json_data, fixes, safe_only, rule_filter))
    /\ dry_doc' = Some(json_data)
    /\ UNCHANGED <<pt_vars, rule_vars>>
    /\ UNCHANGED <<fixes, safe_only, rule_filter, pc, idx, result,
                   conflicting_fixes, raised, written>>

Next ==
    \/ ApplyFixesEnter
    \/ ApplyFixesIteration
    \/ ApplyFixesReturn
    \/ DryRun

Spec == Init /\ [][Next]_vars

-----------------------------------------------------------------------------
(* Runs of the path translator on a family of documents *)

\* make_component(name, children=kids); kids = <<>> stands for children=None
MakeComponent(name, kids) ==
    Dict((IF kids = <<>> THEN <<>> ELSE << <<K("children"), List(kids)>> >>)
         \o << <<K("meta"), Dict(<< <<K("name"), Str(name)>> >>)>>,
               <<K("props"), Dict(<<>>)>>,
               <<K("type"), Str(Tok("ia.display.label"))>> >>)

\* the root object of make_view_json, under a display name
MakeRoot(name, kids) ==
    Dict(<< <<K("children"), List(kids)>>,
            <<K("meta"), Dict(<< <<K("name"), Str(name)>> >>)>>,
            <<K("props"), Dict(<<>>)>>,
            <<K("type"), Str(Tok("ia.container.flex"))>> >>)

ComponentNames == {Tok("A"), Tok("B")}
RootNames == {Tok("root"), Tok("A")}

\* the children of the root: none, one, two, or one with a child of its own
ChildLists ==
    {<<>>}
    \cup {<<MakeComponent(a, <<>>)>> : a \in ComponentNames}
    \cup {<<MakeComponent(a, <<>>), MakeComponent(b, <<>>)>> : a, b \in ComponentNames}
    \cup {<<MakeComponent(a, <<MakeComponent(b, <<>>)>>)>> : a, b \in ComponentNames}

\* view-level entries next to 'root': a custom dict, and a key that holds a dot
CustomEntry == <<K("custom"), Dict(<< <<K("x"), Num(1)>> >>)>>
DottedEntry(name) == <<KS(<<"root", ".">> \o name), Num(5)>>

Documents ==
    UNION {
        { Dict(<< <<K("root"), MakeRoot(r, kids)>> >>),
          Dict(<< CustomEntry, <<K("root"), MakeRoot(r, kids)>> >>),
          Dict(<< DottedEntry(r), <<K("root"), MakeRoot(r, kids)>> >>),
          Dict(<< <<K("root"), MakeRoot(r, kids)>>, DottedEntry(r) >>) }
        : r \in RootNames, kids \in ChildLists }
    \cup { Dict(<< <<K("root"), Dict(<< <<K("meta"), Str(Tok("root"))>> >>)>> >>) }

\* the object a json path reaches in a document the path belongs to
RECURSIVE ValueAt(_, _)
ValueAt(value, json_path) ==
    IF json_path = <<>>
    THEN value
    ELSE ValueAt(Index(value, Head(json_path)).val, Tail(json_path))

\* every json path of a value, the empty path of the value itself included
RECURSIVE JsonPaths(_)
JsonPaths(value) ==
    {<<>>} \cup
    (IF value.t = "dict"
     THEN UNION {{<<value.v[i][1]>> \o q : q \in JsonPaths(value.v[i][2])} :
                    i \in 1..Len(value.v)}
     ELSE IF value.t = "list"
     THEN UNION {{<<I(i - 1)>> \o q : q \in JsonPaths(value.v[i])} : i \in 1..Len(value.v)}
     ELSE {})

\* an object that carries a display name in meta.name
IsComponent(value) ==
    /\ value.t = "dict"
    /\ DictGet(value, "meta").some
    /\ DictGet(value, "meta").v.t = "dict"
    /\ component_name(value).some
    /\ TruthyValue(component_name(value).v)

\* the DocumentPaths of the components, by walking the document
ComponentPaths(doc) == {q \in JsonPaths(doc) : IsComponent(ValueAt(doc, q))}

\* the ModelPath of the object at a json path: a named object pushes its
\* display name, a key pushes the key, a list element pushes [index]
RECURSIVE ModelPathFrom(_, _, _)
ModelPathStep(value, json_path, model_path) ==
    IF json_path = <<>>
    THEN model_path
    ELSE IF Head(json_path)[1] = "k"
    THEN ModelPathFrom(Index(value, Head(json_path)).val, Tail(json_path),
                       JoinKey(model_path, Head(json_path)[2]))
    ELSE ModelPathFrom(Index(value, Head(json_path)).val, Tail(json_path),
                       ItemPath(model_path, Head(json_path)[2]))
ModelPathFrom(value, json_path, model_path) ==
    IF IsComponent(value)
    THEN ModelPathStep(value, json_path,
                       JoinKey(model_path, FormatValue(component_name(value).v)))
    ELSE ModelPathStep(value, json_path, model_path)
ModelPathOf(doc, json_path) == ModelPathFrom(doc, json_path, <<>>)

-----------------------------------------------------------------------------
(* reference_finder.py *)

\* flatten_json of the external stage: the scalar values of the document by
\* model path, walked as the translator walks
RECURSIVE flatten_json(_, _)
flatten_json(doc, map) ==
    IF map = <<>>
    THEN <<>>
    ELSE (IF ValueAt(doc, Head(map)[2]).t \in {"dict", "list"}
          THEN <<>>
          ELSE << <<Head(map)[1], ValueAt(doc, Head(map)[2])>> >>)
         \o flatten_json(doc, Tail(map))

ComponentReference(json_path, ref_type, context) ==
    [json_path |-> json_path, ref_type |-> ref_type, context |-> context]

\* re.split(r'[./]', ref_path), as the set of the non-empty segments
IsSeparator(t) == t \in {".", "/"}
PathSegments(ref_path) ==
    {SubSeq(ref_path, p[1], p[2]) :
         p \in {q \in (1..Len(ref_path)) \X (1..Len(ref_path)) :
                    /\ q[1] <= q[2]
                    /\ (q[1] = 1 \/ IsSeparator(ref_path[q[1] - 1]))
                    /\ (q[2] = Len(ref_path) \/ IsSeparator(ref_path[q[2] + 1]))
                    /\ \A k \in q[1]..q[2] : ~IsSeparator(ref_path[k])}}

\* _has_expression_reference: re.finditer(EXPRESSION_PATTERN, value) from position i
RECURSIVE expression_reference_from(_, _, _)
expression_reference_match(value, name, i, run, close) ==
    \/ name \in PathSegments(SubSeq(value, i + run + 2, close - 1))
    \/ expression_reference_from(value, name, close + 1)
expression_reference_at(value, name, i, run) ==
    IF TokenAt(value, i, run)
    THEN expression_reference_match(value, name, i, run,
                                    NextPos(value, "}", i + run + 2))
    ELSE expression_reference_from(value, name, i + 1)
expression_reference_from(value, name, i) ==
    IF i > Len(value)
    THEN FALSE
    ELSE expression_reference_at(value, name, i, DotRun(value, i + 1))
has_expression_reference(value, name) ==
    expression_reference_from(value, name, 1)

\* _has_property_binding_reference: re.match(PROPERTY_BINDING_PATTERN, value)
property_binding_match(value, name, run) ==
    /\ run >= 2
    /\ run + 1 < Len(value)
    /\ value[run + 1] = "/"
    /\ \A k \in (run + 2)..Len(value) : value[k] # "\n"
    /\ name \in PathSegments(SubSeq(value, run + 2, Len(value)))
has_property_binding_reference(value, name) ==
    property_binding_match(value, name, DotRun(value, 1))

\* SCRIPT_PATTERNS: with or without a leading self, getSibling or getChild
SCRIPT_PATTERNS ==
    << [self |-> TRUE, method |-> "getSibling"], [self |-> TRUE, method |-> "getChild"],
       [self |-> FALSE, method |-> "getSibling"], [self |-> FALSE, method |-> "getChild"] >>
\* the pattern, with {name} replaced, matches at position i (the position of its ".")
ScriptPatternAt(value, pattern, name, i) ==
    /\ pattern.self => (i > 1 /\ value[i - 1] = "self")
    /\ i + 4 + Len(name) <= Len(value)
    /\ value[i] = "."
    /\ value[i + 1] = pattern.method
    /\ value[i + 2] = "("
    /\ IsQuote(value[i + 3])
    /\ SubSeq(value, i + 4, i + 3 + Len(name)) = name
    /\ IsQuote(value[i + 4 + Len(name)])
    /\ i + 5 + Len(name) <= Len(value)
    /\ value[i + 5 + Len(name)] = ")"
\* _has_script_reference
has_script_reference(value, name) ==
    \E k \in 1..Len(SCRIPT_PATTERNS) :
        \E i \in 1..Len(value) : ScriptPatternAt(value, SCRIPT_PATTERNS[k], name, i)

\* the body of the loop of find_references: the references of one entry
reference_found(json_path, ref_type, context) ==
    IF Truthy(json_path)
    THEN <<ComponentReference(json_path.v, ref_type, context)>>
    ELSE <<>>
references_of_entry(map, model_path, value, name) ==
    IF value.t # "str"
    THEN <<>>
    ELSE IF has_expression_reference(value.v, name)
    THEN reference_found(model_path_to_json_path(map, model_path), "expression", value.v)
    ELSE IF has_property_binding_reference(value.v, name)
    THEN reference_found(model_path_to_json_path(map, model_path), "property_binding", value.v)
    ELSE IF has_script_reference(value.v, name)
    THEN reference_found(model_path_to_json_path(map, model_path), "script", value.v)
    ELSE <<>>
\* find_references
RECURSIVE find_references(_, _, _)
find_references(flattened_json, map, name) ==
    IF flattened_json = <<>>
    THEN <<>>
    ELSE references_of_entry(map, Head(flattened_json)[1], Head(flattened_json)[2],
                             name)
         \o find_references(Tail(flattened_json), map, name)

THIS_META_NAME == <<"this", ".", "meta", ".", "name">>
\* faulty variant: only the strings of the component's own meta and props
has_self_name_binding_own(flattened_json, component_model_path) ==
    \E i \in 1..Len(flattened_json) :
        /\ \/ StartsWith(flattened_json[i][1], component_model_path \o <<".", "props">>)
           \/ StartsWith(flattened_json[i][1], component_model_path \o <<".", "meta">>)
        /\ flattened_json[i][2].t = "str"
        /\ Contains(flattened_json[i][2].v, THIS_META_NAME)
\* has_self_name_binding
has_self_name_binding(flattened_json, component_model_path) ==
    \E i \in 1..Len(flattened_json) :
        /\ StartsWith(flattened_json[i][1], component_model_path)
        /\ flattened_json[i][2].t = "str"
        /\ Contains(flattened_json[i][2].v, THIS_META_NAME)

\* faulty variant: the operations of the expression references only
build_rename_operations_expressions(old_name, new_name, references) ==
    [i \in 1..Len(SelectSeq(references, LAMBDA r : r.ref_type = "expression")) |->
        ReplaceOp(SelectSeq(references, LAMBDA r : r.ref_type = "expression")[i].json_path,
                  old_name, new_name)]
\* build_rename_operations
build_rename_operations(old_name, new_name, references) ==
    [i \in 1..Len(references) |-> ReplaceOp(references[i].json_path, old_name, new_name)]

\* the safety notes of a rename fix: what else the rename touches
RenameSafetyNotes(self_name, references) ==
    IF self_name /\ Len(references) > 0
    THEN Some(<<"this.meta.name", "; ", ToString(Len(references)), " reference(s)">>)
    ELSE IF self_name
    THEN Some(<<"this.meta.name">>)
    ELSE IF Len(references) > 0
    THEN Some(<<ToString(Len(references)), " reference(s)">>)
    ELSE None
\* faulty variant: safety decided by the references alone
rename_fix_of_references_only(name_path, old_name, new_name, self_name, references) ==
    Fix("NamePatternRule",
        <<SetOp(name_path, Str(new_name))>>
            \o build_rename_operations(old_name, new_name, references),
        ~(Len(references) > 0),
        RenameSafetyNotes(self_name, references))
\* the rename fix of NamePatternRule: the new name written to the name field,
\* one replacement per reference
rename_fix_of(name_path, old_name, new_name, self_name, references) ==
    Fix("NamePatternRule",
        <<SetOp(name_path, Str(new_name))>>
            \o build_rename_operations(old_name, new_name, references),
        ~(self_name \/ Len(references) > 0),
        RenameSafetyNotes(self_name, references))
rename_fix(flattened_json, map, name_paths, component_model_path, old_name, new_name) ==
    rename_fix_of(get_component_name_path(name_paths, component_model_path).v,
                  old_name, new_name,
                  has_self_name_binding(flattened_json, component_model_path),
                  find_references(flattened_json, map, old_name))

-----------------------------------------------------------------------------
(* Documents with one string that may name a component *)

\* make_component(name, props=..., children=kids)
MakeComponentWith(name, props, kids) ==
    Dict((IF kids = <<>> THEN <<>> ELSE << <<K("children"), List(kids)>> >>)
         \o << <<K("meta"), Dict(<< <<K("name"), Str(name)>> >>)>>,
               <<K("props"), Dict(props)>>,
               <<K("type"), Str(Tok("ia.display.label"))>> >>)

\* the string of the document: a token, a binding path, a script, the
\* sentinel of the component's own name, or a text that names nothing
TextOf(v) ==
    IF v.kind = "expression" THEN <<"{">> \o TargetPath(v.dots, v.ref) \o <<"}">>
    ELSE IF v.kind = "property binding" THEN TargetPath(v.dots, v.ref)
    ELSE IF v.kind = "script" THEN Chain(v.dots - 2, v.ref, v.calls) \o <<".", "props", ".", "text">>
    ELSE IF v.kind = "self name" THEN <<"{">> \o THIS_META_NAME \o <<"}">>
    ELSE JoinNames(v.ref)
\* props of component c of the document: the string sits in props.text of the owner
PropsOf(v, c) == IF v.owner = c THEN << <<K("text"), Str(TextOf(v))>> >> ELSE <<>>
\* the document of v: root with the children c1 (child g1 of its own) and c2
DocumentOf(v) ==
    Dict(<< <<K("root"),
              MakeComponentWith(
                  Tok("root"), PropsOf(v, "root"),
                  << MakeComponentWith(v.c1, PropsOf(v, "c1"),
                                       <<MakeComponentWith(v.g1, PropsOf(v, "g1"), <<>>)>>),
                     MakeComponentWith(v.c2, PropsOf(v, "c2"), <<>>) >>)>> >>)
DocReferences == {<<Tok("A")>>, <<Tok("B")>>, <<Tok("A"), Tok("B")>>}
\* dots: the leading dots of a token or path, 2 + the .parent steps of a script
DocViews ==
    [c1 : OtherNames, c2 : OtherNames, g1 : OtherNames, under : {"c1"},
     owner : {"root", "c1", "c2", "g1"},
     kind : {"expression", "property binding"},
     dots : 1..(MaxDots - 1),
     ref : DocReferences,
     calls : {<<>>}]
    \cup {v \in [c1 : OtherNames, c2 : OtherNames, g1 : OtherNames, under : {"c1"},
                 owner : {"root", "c1", "c2", "g1"},
                 kind : {"script"},
                 dots : 2..(MaxDots - 1),
                 ref : DocReferences,
                 calls : CallLists(1) \cup CallLists(2)] : Len(v.calls) = Len(v.ref)}
    \cup [c1 : OtherNames, c2 : OtherNames, g1 : OtherNames, under : {"c1"},
          owner : {"root", "c1", "c2", "g1"},
          kind : {"self name", "text"},
          dots : {2},
          ref : {<<Tok("A")>>},
          calls : {<<>>}]
\* the json path of component c in a document of DocViews
JsonPathOf(c) ==
    IF c = "root" THEN <<K("root")>>
    ELSE IF c = "c1" THEN <<K("root"), K("children"), I(0)>>
    ELSE IF c = "c2" THEN <<K("root"), K("children"), I(1)>>
    ELSE <<K("root"), K("children"), I(0), K("children"), I(0)>>
\* the names find_references is asked for: display names, and a property key
SearchNames == OtherNames \cup {Tok("text")}
NewName == Tok("Renamed")

InitPT ==
    /\ \/ json_data \in Documents /\ view = None
       \/ \E v \in DocViews : json_data = DocumentOf(v) /\ view = Some(v)
    /\ model_to_json = <<>>
    /\ component_name_paths = <<>>
    /\ pt_pc = "new"
    /\ lookup = None
    /\ RuleIdle
    /\ validate_expressions = TRUE
    /\ validate_property_bindings = TRUE
    /\ validate_scripts = TRUE
    /\ fixes = <<>>
    /\ safe_only = TRUE
    /\ rule_filter = None
    /\ pc = "idle"
    /\ idx = 0
    /\ result = FixResult(<<>>, <<>>, <<>>)
    /\ conflicting_fixes = {}
    /\ raised = NoException
    /\ written = <<>>
    /\ dry_result = None
    /\ dry_doc = None

PathTranslatorCommit(st) ==
    /\ model_to_json' = st.model_to_json
    /\ component_name_paths' = st.component_name_paths
    /\ pt_pc' = IF st.err = NoException THEN "ready" ELSE "raised"

\* PathTranslator.__init__
PathTranslatorInit ==
    /\ pt_pc = "new"
    /\ PathTranslatorCommit(PathTranslator(json_data))
    /\ UNCHANGED <<json_data, lookup, engine_vars, rule_vars>>

\* model_path_to_json_path(modelPath(C)) for a component C of the document;
\* a run records one call on the translator or the finder (the lookups leave
\* both as they are)
ModelPathToJsonPath ==
    /\ pt_pc = "ready"
    /\ lookup = None
    /\ \E c \in ComponentPaths(json_data) :
           lookup' = Some([op |-> "model_path_to_json_path",
                           component |-> c,
                           model_path |-> ModelPathOf(json_data, c),
                           ret |-> model_path_to_json_path(model_to_json,
                                                           ModelPathOf(json_data, c))])
    /\ UNCHANGED <<json_data, model_to_json, component_name_paths, pt_pc, engine_vars, rule_vars>>

\* get_component_name_path(modelPath(C)) for a component C of the document
GetComponentNamePath ==
    /\ pt_pc = "ready"
    /\ lookup = None
    /\ \E c \in ComponentPaths(json_data) :
           lookup' = Some([op |-> "get_component_name_path",
                           component |-> c,
                           model_path |-> ModelPathOf(json_data, c),
                           ret |-> get_component_name_path(component_name_paths,
                                                           ModelPathOf(json_data, c))])
    /\ UNCHANGED <<json_data, model_to_json, component_name_paths, pt_pc, engine_vars, rule_vars>>

\* the entries of flatten_json for the document of the run
Flattened == flatten_json(json_data, model_to_json)
\* the lookups of the finder and the rename fix run on unmodified documents
LookupStep(record) ==
    /\ pt_pc = "ready"
    /\ lookup = None
    /\ lookup' = Some(record)
    /\ UNCHANGED <<json_data, model_to_json, component_name_paths, pt_pc, engine_vars, rule_vars>>

\* ComponentReferenceFinder(flattened, translator).find_references(name)
FindReferences ==
    \E name \in SearchNames :
        LookupStep([op |-> "find_references", component |-> <<>>, model_path |-> name,
                    ret |-> find_references(Flattened, model_to_json, name)])

\* has_self_name_binding(modelPath(C)) for a component C of the document
HasSelfNameBinding ==
    \E c \in ComponentPaths(json_data) :
        LookupStep([op |-> "has_self_name_binding", component |-> c,
                    model_path |-> ModelPathOf(json_data, c),
                    ret |-> has_self_name_binding(Flattened, ModelPathOf(json_data, c))])

\* the rename fix of a component C of a document with a string
RenameFix ==
    /\ view.some
    /\ \E c \in Components :
           LookupStep([op |-> "rename_fix", component |-> JsonPathOf(c),
                       model_path |-> ModelPathOf(json_data, JsonPathOf(c)),
                       ret |-> rename_fix(Flattened, model_to_json, component_name_paths,
                                          ModelPathOf(json_data, JsonPathOf(c)),
                                          NameOf(view.v, c), NewName)])

\* the paths get_value and set_value are asked for: the name field of a
\* component and paths next to it that the document does not hold
ProbePaths(doc) ==
    UNION {{c \o <<K("meta"), K("name")>>,
            c \o <<K("meta"), K("nokey")>>,
            c \o <<K("nokey"), K("name")>>,
            c \o <<K("meta"), K("name"), K("x")>>,
            c \o <<K("children"), I(MaxIndex + 1)>>,
            c \o <<K("children"), K("meta")>>,
            c \o <<K("children"), I(0)>>} : c \in ComponentPaths(doc)}

\* get_value(json_path)
GetValue ==
    /\ view = None
    /\ \E q \in ProbePaths(json_data) :
           LookupStep([op |-> "get_value", component |-> <<>>, model_path |-> q,
                       ret |-> get_value(json_data, q)])

\* set_value(json_path, value): the document is written in place
SetValue ==
    /\ pt_pc = "ready"
    /\ lookup = None
    /\ view = None
    /\ \E q \in ProbePaths(json_data) :
           /\ lookup' = Some([op |-> "set_value", component |-> <<>>, model_path |-> q,
                              ret |-> set_value(json_data, q, Str(NewName)),
                              before |-> json_data])
           /\ json_data' = IF set_value(json_data, q, Str(NewName)).ok
                           THEN set_value(json_data, q, Str(NewName)).val
                           ELSE json_data
    /\ pt_pc' = "written"
    /\ UNCHANGED <<model_to_json, component_name_paths, engine_vars, rule_vars>>

NextPT ==
    \/ PathTranslatorInit
    \/ ModelPathToJsonPath
    \/ GetComponentNamePath
    \/ FindReferences
    \/ HasSelfNameBinding
    \/ RenameFix
    \/ GetValue
    \/ SetValue

SpecPT == InitPT /\ [][NextPT]_vars

\* C1: for every document and every component C of it,
\* model_path_to_json_path(modelPath(C)) is the DocumentPath of C found by
\* walking the document: the path returned never reaches another object.
C1_TranslatorAgreesWithWalk ==
    (lookup.some /\ lookup.v.op = "model_path_to_json_path") =>
        lookup.v.ret = Some(lookup.v.component)

-----------------------------------------------------------------------------
(* Runs of a rename: the fix is built on a document, applied by the engine,
   and the updated document is searched again *)

\* display names of which one is a part of the other ('A', 'MyA', 'MyMyA')
RenameNames == {Tok("A"), <<"My", "A">>, <<"My", "My", "A">>}
NewNames == {Tok("A"), Tok("Renamed")}
RenameReferences ==
    {<<n>> : n \in RenameNames} \cup {<<n, m>> : n \in RenameNames, m \in RenameNames}
\* the documents: the string of c2 or of root names c1, or c1 and then g1
RenameViews ==
    {v \in [c1 : RenameNames, c2 : {Tok("B")}, g1 : RenameNames, under : {"c1"},
            owner : {"root", "c2"},
            kind : {"expression", "property binding", "script"},
            dots : {2},
            ref : RenameReferences,
            calls : {<<>>, <<"getSibling">>, <<"getSibling", "getChild">>}] :
        Len(v.calls) = IF v.kind = "script" THEN Len(v.ref) ELSE 0}

\* apply_fixes([fix], safe_only=False): a list of one fix has no conflicts, no
\* rule filter is given, so the fix reaches the try statement
apply_rename(doc, fix) ==
    apply_fixes_try([doc |-> doc, result |-> FixResult(<<>>, <<>>, <<>>),
                     raised |-> NoException, done |-> 0],
                    1, apply_single_fix(doc, fix))

InitRN ==
    /\ \E v \in RenameViews : json_data = DocumentOf(v) /\ view = Some(v)
    /\ model_to_json = <<>>
    /\ component_name_paths = <<>>
    /\ pt_pc = "new"
    /\ lookup = None
    /\ RuleIdle
    /\ validate_expressions = TRUE
    /\ validate_property_bindings = TRUE
    /\ validate_scripts = TRUE
    /\ fixes = <<>>
    /\ safe_only = FALSE
    /\ rule_filter = None
    /\ pc = "idle"
    /\ idx = 0
    /\ result = FixResult(<<>>, <<>>, <<>>)
    /\ conflicting_fixes = {}
    /\ raised = NoException
    /\ written = <<>>
    /\ dry_result = None
    /\ dry_doc = None

\* the rename fix of a component of the document, for a new name
RenameBuild ==
    /\ pt_pc = "ready"
    /\ pc = "idle"
    /\ lookup = None
    /\ \E c \in {"c1", "c2", "g1"}, new_name \in NewNames :
           /\ new_name # NameOf(view.v, c)
           /\ lookup' = Some([op |-> "rename_fix",
                              component |-> JsonPathOf(c),
                              model_path |-> ModelPathOf(json_data, JsonPathOf(c)),
                              old_name |-> NameOf(view.v, c),
                              new_name |-> new_name,
                              ret |-> rename_fix(Flattened, model_to_json, component_name_paths,
                                                 ModelPathOf(json_data, JsonPathOf(c)),
                                                 NameOf(view.v, c), new_name),
                              before |-> json_data,
                              found |-> <<>>])
    /\ UNCHANGED <<json_data, model_to_json, component_name_paths, pt_pc, engine_vars, rule_vars>>

RenameCommit(st) ==
    /\ json_data' = st.doc
    /\ result' = st.result
    /\ raised' = st.raised
    /\ written' = [i \in 1..st.done |-> <<1, i>>]
    /\ pc' = IF st.raised = NoException THEN "done" ELSE "raised"

\* FixEngine(translator).apply_fixes([fix], safe_only=False)
RenameApply ==
    /\ pc = "idle"
    /\ lookup.some
    /\ RenameCommit(apply_rename(json_data, lookup.v.ret))
    /\ UNCHANGED <<pt_vars, rule_vars>>
    /\ UNCHANGED <<fixes, safe_only, rule_filter, idx, conflicting_fixes, dry_result, dry_doc>>

\* a new translator and a new flattening of the updated document, and
\* find_references(old name) on them
RenameFindAfter ==
    /\ pc = "done"
    /\ lookup.v.op = "rename_fix"
    /\ model_to_json' = PathTranslator(json_data).model_to_json
    /\ component_name_paths' = PathTranslator(json_data).component_name_paths
    /\ lookup' = Some([lookup.v EXCEPT
                           !.op = "find_references",
                           !.found = find_references(
                                         flatten_json(json_data,
                                                      PathTranslator(json_data).model_to_json),
                                         PathTranslator(json_data).model_to_json,
                                         lookup.v.old_name)])
    /\ UNCHANGED <<json_data, pt_pc, engine_vars, rule_vars>>

NextRN ==
    \/ PathTranslatorInit
    \/ RenameBuild
    \/ RenameApply
    \/ RenameFindAfter

SpecRN == InitRN /\ [][NextRN]_vars

-----------------------------------------------------------------------------
(* Runs of the reference validation rule *)

InitRef ==
    /\ RuleConstructed
    /\ \E c \in RuleConfigurations :
           /\ validate_expressions = c[1]
           /\ validate_property_bindings = c[2]
           /\ validate_scripts = c[3]
    /\ json_data = ViewJson
    /\ model_to_json = <<>>
    /\ component_name_paths = <<>>
    /\ pt_pc = "new"
    /\ lookup = None
    /\ fixes = <<>>
    /\ safe_only = TRUE
    /\ rule_filter = None
    /\ pc = "idle"
    /\ idx = 0
    /\ result = FixResult(<<>>, <<>>, <<>>)
    /\ conflicting_fixes = {}
    /\ raised = NoException
    /\ written = <<>>
    /\ dry_result = None
    /\ dry_doc = None

ProcessNodesIndex(ix) ==
    /\ component_tree' = ix.component_tree
    /\ component_by_name' = ix.component_by_name
    /\ parent_map' = ix.parent_map
    /\ children_map' = ix.children_map

\* the fields of the rule that process_nodes assigns before phase 1
TheRule ==
    [errors |-> errors,
     component_tree |-> component_tree, component_by_name |-> component_by_name,
     parent_map |-> parent_map, children_map |-> children_map]
IndexOf(rule) ==
    [component_tree |-> rule.component_tree, component_by_name |-> rule.component_by_name,
     parent_map |-> rule.parent_map, children_map |-> rule.children_map]

\* phase 1 on the rule as the reset left it
ProcessNodesPhase1(rule, v) ==
    /\ view' = Some(v)
    /\ nodes' = NodesOf(v)
    /\ ProcessNodesIndex(build_component_index(
           IndexOf(rule), SelectSeq(NodesOf(v), IsComponentNode)))
    /\ errors' = rule.errors

\* process_nodes up to the validation loop, on the nodes of a view of the
\* family: reset, then phase 1
ProcessNodesCall(family) ==
    /\ rv_pass < MaxPasses
    /\ \E v \in family : ProcessNodesPhase1(process_nodes_reset(TheRule), v)
    /\ rv_trace' = <<>>
    /\ rv_idx' = 1
    /\ rv_pc' = "validate"
    /\ rv_pass' = rv_pass + 1
    /\ UNCHANGED <<validate_expressions, validate_property_bindings, validate_scripts,
                   json_data, engine_vars, pt_vars>>

\* the first pass of a rule
ProcessNodesStart == rv_pc = "idle" /\ ProcessNodesCall(Views)

ProcessNodesCommit(st) ==
    /\ errors' = st.errors
    /\ rv_trace' = st.trace

\* one iteration of "for node in nodes": node.accept(self)
ProcessNodesVisit ==
    /\ rv_pc = "validate"
    /\ rv_idx <= Len(nodes)
    /\ ProcessNodesCommit(accept(TheIndex, [errors |-> errors, trace |-> rv_trace],
                                 nodes[rv_idx], validate_expressions,
                                 validate_property_bindings, validate_scripts))
    /\ rv_idx' = rv_idx + 1
    /\ UNCHANGED <<view, nodes, validate_expressions, validate_property_bindings, validate_scripts,
                   component_tree, component_by_name, parent_map, children_map, rv_pc,
                   rv_pass, json_data, engine_vars, pt_vars>>

\* process_nodes returns
ProcessNodesReturn ==
    /\ rv_pc = "validate"
    /\ rv_idx > Len(nodes)
    /\ rv_pc' = "done"
    /\ UNCHANGED <<view, nodes, validate_expressions, validate_property_bindings, validate_scripts,
                   component_tree, component_by_name, parent_map, children_map,
                   errors, rv_idx, rv_pass, rv_trace, json_data, engine_vars, pt_vars>>

NextRef ==
    \/ ProcessNodesStart
    \/ ProcessNodesVisit
    \/ ProcessNodesReturn

SpecRef == InitRef /\ [][NextRef]_vars

\* a pass of a rule that may have made passes before, over a view of the family
ProcessNodesPass == rv_pc \in {"idle", "done"} /\ ProcessNodesCall(PassViews)

NextPass ==
    \/ ProcessNodesPass
    \/ ProcessNodesVisit
    \/ ProcessNodesReturn

\* a rule constructed with the defaults: every validation switched on
InitPass ==
    /\ InitRef
    /\ validate_expressions /\ validate_property_bindings /\ validate_scripts

SpecPass == InitPass /\ [][NextPass]_vars

IsAboveRoot(message) == message[Len(message)] = "navigates above root component"
AboveRootErrors == {i \in 1..Len(errors) : IsAboveRoot(errors[i])}
\* the binding of the view was validated by the pass
Validated ==
    /\ rv_pc = "done"
    /\ \/ view.v.kind = "expression" /\ validate_expressions
       \/ view.v.kind = "property binding" /\ validate_property_bindings

\* C10: a relative token with d leading dots validated from an owner at depth
\* k reports exactly one 'navigates above root' violation, without descent,
\* when d - 1 > k, and no such violation when d - 1 <= k.
C10_AboveRootExactlyBeyondDepth ==
    Validated =>
        IF view.v.dots - 1 > OwnerDepth(view.v)
        THEN /\ Cardinality(AboveRootErrors) = 1
             /\ Len(errors) = 1
             /\ Len(rv_trace) = 1
             /\ rv_trace[1].outcome = "above root"
             /\ ~rv_trace[1].descended
        ELSE /\ AboveRootErrors = {}
             /\ Len(rv_trace) = 1
             /\ rv_trace[1].outcome # "above root"

IsNonExistent(message) ==
    \E i \in 1..Len(message) : message[i] = " references non-existent "

\* C11: a relative token whose levelsUp is at most the depth of the owning
\* component resolves without a violation whenever a chain of components with
\* the names of the token exists below the ancestor reached, also between
\* siblings of one display name; without such a chain the pass reports one
\* 'references non-existent component' violation.
C11_ResolvesExactlyExistingChains ==
    (Validated /\ view.v.dots - 1 <= OwnerDepth(view.v)) =>
        IF ChainEnds(view.v, AncestorOf(view.v, view.v.owner, view.v.dots - 1), view.v.ref) # {}
        THEN errors = <<>> /\ rv_trace[1].outcome = "resolved"
        ELSE Len(errors) = 1 /\ IsNonExistent(errors[1])

\* the components one call of a script chain leads to from c
CallTargets(v, c, call, name) ==
    IF call = "getChild"
    THEN {d \in ChildrenOf(v, c) : NameOf(v, d) = name}
    ELSE IF HasParent(c)
    THEN {d \in ChildrenOf(v, ParentOf(v, c)) : d # c /\ NameOf(v, d) = name}
    ELSE {}
RECURSIVE CallEnds(_, _, _, _)
CallEnds(v, c, names, calls) ==
    IF names = <<>>
    THEN {c}
    ELSE UNION {CallEnds(v, d, Tail(names), Tail(calls)) :
                    d \in CallTargets(v, c, Head(calls), Head(names))}
\* the references of the pass over view v: the text validated and whether a
\* component stands where the reference leads
TokenResolves(v) ==
    /\ v.dots - 1 <= DepthOf(v.owner)
    /\ ChainEnds(v, AncestorOf(v, v.owner, v.dots - 1), v.ref) # {}
ChainResolves(v) ==
    /\ v.dots - 2 <= DepthOf(v.owner)
    /\ CallEnds(v, AncestorOf(v, v.owner, v.dots - 2), v.ref, v.calls) # {}
SecondChainResolves(v) == CallEnds(v, v.owner, <<Tok("B")>>, <<"getChild">>) # {}
ReferencesOf(v) ==
    IF v.kind = "script"
    THEN <<[text |-> Chain(v.dots - 2, v.ref, v.calls), resolves |-> ChainResolves(v)],
           [text |-> SecondChain, resolves |-> SecondChainResolves(v)]>>
    ELSE <<[text |-> JoinNames(v.ref), resolves |-> TokenResolves(v)]>>
Unresolved(v) == {i \in 1..Len(ReferencesOf(v)) : ~ReferencesOf(v)[i].resolves}
\* the pass is over and the validation of the reference kind was switched on
PassValidated ==
    /\ rv_pc = "done"
    /\ \/ Validated
       \/ view.v.kind = "script" /\ validate_scripts
ValidatedTexts == {rv_trace[i].ref.component_ref : i \in 1..Len(rv_trace)}

\* C12: in one pass every unresolved reference (expression token, property
\* binding path, bare self.getSibling call, navigation chain) produces exactly
\* one violation string, and every other reference of the same expression,
\* script or pass is validated all the same.
C12_OneViolationPerUnresolvedReference ==
    PassValidated =>
        /\ Len(errors) = Cardinality(Unresolved(view.v))
        /\ \A i \in 1..Len(ReferencesOf(view.v)) :
               ReferencesOf(view.v)[i].text \in ValidatedTexts

\* the path of component c of view v
PathOf(v, c) == OwnerPath([v EXCEPT !.owner = c])
\* the steps of the chain of a script view, left to right
StepsOf(v) ==
    [i \in 1..(v.dots - 2 + Len(v.ref)) |->
        IF i <= v.dots - 2
        THEN [call |-> "parent", name |-> <<>>]
        ELSE [call |-> v.calls[i - (v.dots - 2)], name |-> v.ref[i - (v.dots - 2)]]]
\* the components step leads to from component c
StepTargets(v, c, step) ==
    IF step.call = "parent"
    THEN IF HasParent(c) THEN {ParentOf(v, c)} ELSE {}
    ELSE CallTargets(v, c, step.call, step.name)
\* the step moves the cursor from the component at path from to the one at path to
StepMoves(v, step, from, to) ==
    \E c \in Components :
        /\ PathOf(v, c) = from
        /\ \E d \in StepTargets(v, c, step) : PathOf(v, d) = to
\* the step fails at the component at path from
StepFails(v, step, from) ==
    \E c \in Components : PathOf(v, c) = from /\ StepTargets(v, c, step) = {}
FailureOf(step) ==
    IF step.call = "parent" THEN "beyond root"
    ELSE IF step.call = "getSibling" THEN "not found as sibling"
    ELSE "not found as child"
\* the record of the chain of the script view: the first chain of its script
ChainEntry ==
    rv_trace[CHOOSE i \in 1..Len(rv_trace) :
                 /\ rv_trace[i].ref.ref_type = "chain"
                 /\ \A j \in 1..(i - 1) : rv_trace[j].ref.ref_type # "chain"]
ScriptValidated == rv_pc = "done" /\ view.v.kind = "script" /\ validate_scripts
\* the violations that end with the text of the chain
ChainErrors(chain) == {i \in 1..Len(errors) : EndsWith(errors[i], chain)}
\* the script of the view holds the chain once, or twice when it is its second statement too
Occurrences(chain) == IF chain = SecondChain THEN 2 ELSE 1

\* the cursor of the chain starts at the owning component and every move of
\* it is the move of its step
CursorFollowsSteps(v, e) ==
    /\ e.cursors[1] = OwnerPath(v)
    /\ Len(e.cursors) - 1 <= Len(StepsOf(v))
    /\ \A i \in 1..(Len(e.cursors) - 1) :
           StepMoves(v, StepsOf(v)[i], e.cursors[i], e.cursors[i + 1])
\* no violation exactly when every step succeeds; else the chain ends at the
\* first step that fails, with the violation of that step and no other
ChainOutcome(v, e) ==
    IF Len(e.cursors) - 1 = Len(StepsOf(v))
    THEN e.outcome = "resolved" /\ ChainErrors(e.ref.component_ref) = {}
    ELSE /\ StepFails(v, StepsOf(v)[Len(e.cursors)], e.cursors[Len(e.cursors)])
         /\ e.outcome = FailureOf(StepsOf(v)[Len(e.cursors)])
         /\ Cardinality(ChainErrors(e.ref.component_ref)) = Occurrences(e.ref.component_ref)

\* C13: a chain self + k .parent steps + getSibling('x')/getChild('x') calls
\* is validated left to right from the owning component: .parent moves the
\* cursor to its parent (none: 'beyond root'), getChild('x') to a child of the
\* cursor named x, getSibling('x') to a child of the cursor's parent named x
\* other than the cursor; the chain has no violation exactly when every step
\* succeeds, and its validation stops at the first step that fails.
C13_ChainValidatedLeftToRight ==
    ScriptValidated =>
        /\ ChainEntry.ref.component_ref = Chain(view.v.dots - 2, view.v.ref, view.v.calls)
        /\ CursorFollowsSteps(view.v, ChainEntry)
        /\ ChainOutcome(view.v, ChainEntry)

-----------------------------------------------------------------------------
(* Properties of the reference finder and of the translator's reads and writes *)

Looked(op) == lookup.some /\ lookup.v.op = op
\* the path of the string of the document
TextPathOf(v) == JsonPathOf(v.owner) \o <<K("props"), K("text")>>
\* component c or one of its descendants
RECURSIVE Within(_, _, _)
Within(v, d, c) == d = c \/ (HasParent(d) /\ Within(v, ParentOf(v, d), c))
\* the references of the finder for the old name of the renamed component
ReferencesForRename ==
    find_references(Flattened, model_to_json, NameOf(view.v, CHOOSE c \in Components :
                                                                  JsonPathOf(c) = lookup.v.component))
RenamedComponent == CHOOSE c \in Components : JsonPathOf(c) = lookup.v.component

\* C14: a rename fix is safe exactly when the component has no self-name
\* dependency and find_references of its old name is empty, and every unsafe
\* rename fix carries non-empty safety notes.
C14_RenameSafeWithoutDependencies ==
    Looked("rename_fix") =>
        /\ lookup.v.ret.is_safe =
               ~(\/ has_self_name_binding(Flattened, lookup.v.model_path)
                 \/ Len(ReferencesForRename) > 0)
        /\ lookup.v.ret.is_safe =
               ~(\/ view.v.kind = "self name" /\ Within(view.v, view.v.owner, RenamedComponent)
                 \/ Len(lookup.v.ret.operations) > 1)
        /\ ~lookup.v.ret.is_safe => Truthy(lookup.v.ret.safety_notes)
\* an unsafe rename fix of a component without references: a descendant uses the sentinel
C14_Witness ==
    /\ Looked("rename_fix")
    /\ ~lookup.v.ret.is_safe
    /\ Len(lookup.v.ret.operations) = 1
    /\ view.v.owner # RenamedComponent

\* C15: a rename fix of a component with n >= 0 references carries 1 + n
\* operations: one SET_VALUE on the name field of the component, then one
\* STRING_REPLACE old name -> new name per reference record of
\* find_references, on the DocumentPath of the record.
C15_OneOperationPerReference ==
    Looked("rename_fix") =>
        /\ Len(lookup.v.ret.operations) = 1 + Len(ReferencesForRename)
        /\ lookup.v.ret.operations[1].operation = SET_VALUE
        /\ lookup.v.ret.operations[1].json_path = lookup.v.component \o <<K("meta"), K("name")>>
        /\ lookup.v.ret.operations[1].new_value = Str(NewName)
        /\ \A i \in 1..Len(ReferencesForRename) :
               /\ lookup.v.ret.operations[i + 1].operation = STRING_REPLACE
               /\ lookup.v.ret.operations[i + 1].json_path = ReferencesForRename[i].json_path
               /\ lookup.v.ret.operations[i + 1].old_substring = NameOf(view.v, RenamedComponent)
               /\ lookup.v.ret.operations[i + 1].new_substring = NewName
\* a rename fix with a reference found in a script
C15_Witness ==
    /\ Looked("rename_fix")
    /\ Len(lookup.v.ret.operations) = 2
    /\ view.v.kind = "script"
    /\ lookup.v.ret.operations[2].json_path = TextPathOf(view.v)

\* the string holds a brace token with two or more leading dots whose path,
\* its property suffix stripped, has the name among its '/'-separated segments
NamedByToken(value, name) ==
    \E i \in 1..Len(value) :
        /\ TokenAt(value, i, DotRun(value, i + 1))
        /\ \E k \in 1..Len(Split(extract_component_reference(
                               SubSeq(value, i + DotRun(value, i + 1) + 2,
                                      NextPos(value, "}", i + DotRun(value, i + 1) + 2) - 1)),
                               "/")) :
               Split(extract_component_reference(
                         SubSeq(value, i + DotRun(value, i + 1) + 2,
                                NextPos(value, "}", i + DotRun(value, i + 1) + 2) - 1)),
                     "/")[k] = name
ReportedAs(references, json_path, ref_type) ==
    \E i \in 1..Len(references) :
        references[i].json_path = json_path /\ references[i].ref_type = ref_type

\* C16: find_references(name) reports a string as an expression reference
\* exactly when the string holds a brace token with at least two leading dots
\* whose path, with the trailing property suffix stripped, has name as one of
\* its '/'-separated segments.
C16_ExpressionReferenceBySegment ==
    (Looked("find_references") /\ view.some) =>
        (ReportedAs(lookup.v.ret, TextPathOf(view.v), "expression")
            <=> NamedByToken(TextOf(view.v), lookup.v.model_path))

\* the components the string of the document leads to, by the navigation
\* grammar from its owner, at the names equal to name
LedTo(v, name) ==
    IF v.kind \in {"expression", "property binding"}
    THEN IF v.dots < 2 \/ v.dots - 1 > DepthOf(v.owner)
         THEN {}
         ELSE UNION {ChainEnds(v, AncestorOf(v, v.owner, v.dots - 1), SubSeq(v.ref, 1, k)) :
                         k \in {j \in 1..Len(v.ref) : v.ref[j] = name}}
    ELSE IF v.kind = "script"
    THEN IF v.dots - 2 > DepthOf(v.owner)
         THEN {}
         ELSE UNION {CallEnds(v, AncestorOf(v, v.owner, v.dots - 2),
                              SubSeq(v.ref, 1, k), SubSeq(v.calls, 1, k)) :
                         k \in {j \in 1..Len(v.ref) : v.ref[j] = name}}
    ELSE {}

\* C17: a reference is attributed to a component by tree position only:
\* every reference find_references returns for the rename of component C
\* leads, by the navigation grammar from the owner of the referencing value,
\* to C itself; a reference to another component of the same display name is
\* not returned.
C17_ReferencesByTreePosition ==
    Looked("rename_fix") =>
        \A i \in 1..Len(ReferencesForRename) :
            ReferencesForRename[i].json_path = TextPathOf(view.v)
                => RenamedComponent \in LedTo(view.v, NameOf(view.v, RenamedComponent))

\* every segment of the path is in the container it indexes
RECURSIVE Present(_, _)
Present(value, json_path) ==
    \/ json_path = <<>>
    \/ /\ value.t = "dict"
       /\ KeyPos(value.v, Head(json_path)) # 0
       /\ Present(value.v[KeyPos(value.v, Head(json_path))][2], Tail(json_path))
    \/ /\ value.t = "list"
       /\ Head(json_path)[1] = "i"
       /\ Head(json_path)[2] + 1 <= Len(value.v)
       /\ Present(value.v[Head(json_path)[2] + 1], Tail(json_path))
IsPrefix(p, q) == Len(p) <= Len(q) /\ SubSeq(q, 1, Len(p)) = p
\* doc is before with the value at json_path replaced and nothing else changed
ReplacedAt(before, doc, json_path, value) ==
    /\ Present(doc, json_path)
    /\ ValueAt(doc, json_path) = value
    /\ \A p \in JsonPaths(before) :
           IF IsPrefix(json_path, p)
           THEN TRUE
           ELSE IF IsPrefix(p, json_path)
           THEN Present(doc, p) /\ ValueAt(doc, p).t = ValueAt(before, p).t
           ELSE Present(doc, p) /\ ValueAt(doc, p) = ValueAt(before, p)
    /\ \A p \in JsonPaths(doc) : IsPrefix(json_path, p) \/ p \in JsonPaths(before)

\* C18: get_value and set_value fail with a not-found error and leave the
\* document as it is whenever a segment of the path, the last one included,
\* is missing from the container it indexes or the value reached is no
\* container of the matching shape; otherwise get_value returns the value
\* addressed and set_value replaces exactly that value in place.
C18_MissingSegmentFails ==
    /\ Looked("get_value") =>
           IF Present(json_data, lookup.v.model_path)
           THEN lookup.v.ret.ok /\ lookup.v.ret.val = ValueAt(json_data, lookup.v.model_path)
           ELSE ~lookup.v.ret.ok
    /\ Looked("set_value") =>
           IF Present(lookup.v.before, lookup.v.model_path)
           THEN /\ lookup.v.ret.ok
                /\ ReplacedAt(lookup.v.before, json_data, lookup.v.model_path, Str(NewName))
           ELSE ~lookup.v.ret.ok /\ json_data = lookup.v.before

\* a string in component c or below it holds the sentinel
SentinelWithin(doc, c) ==
    \E q \in JsonPaths(doc) :
        /\ IsPrefix(c, q)
        /\ ValueAt(doc, q).t = "str"
        /\ Contains(ValueAt(doc, q).v, THIS_META_NAME)

\* C19: has_self_name_binding(P) is true exactly when a string value whose
\* ModelPath lies under the ModelPath of component P holds 'this.meta.name';
\* the strings of the descendants of P count.
C19_SelfNameBindingOfSubtree ==
    Looked("has_self_name_binding") =>
        (lookup.v.ret <=> SentinelWithin(json_data, lookup.v.component))
\* a container reported for the sentinel of its grandchild
C19_Witness ==
    /\ Looked("has_self_name_binding")
    /\ lookup.v.ret
    /\ view.some
    /\ view.v.owner = "g1"
    /\ lookup.v.component = JsonPathOf("root")

\* C20: for every component C of a document, get_component_name_path of the
\* ModelPath of C is model_path_to_json_path of it followed by 'meta', 'name',
\* and get_value at that path of the unmodified document is the display name
\* of C, the last segment of its ModelPath.
C20_NamePathExtendsComponentPath ==
    Looked("get_component_name_path") =>
        /\ lookup.v.ret.some
        /\ model_path_to_json_path(model_to_json, lookup.v.model_path).some
        /\ lookup.v.ret.v = model_path_to_json_path(model_to_json, lookup.v.model_path).v
                                \o <<K("meta"), K("name")>>
        /\ get_value(json_data, lookup.v.ret.v).ok
        /\ get_value(json_data, lookup.v.ret.v).val
               = ValueAt(json_data, lookup.v.component \o <<K("meta"), K("name")>>)
        /\ get_value(json_data, lookup.v.ret.v).val.t = "str"
        /\ EndsWith(lookup.v.model_path, get_value(json_data, lookup.v.ret.v).val.v)

-----------------------------------------------------------------------------
(* Properties of the fix engine *)

PathsOf(f) ==
    {FixPool[f].operations[i].json_path : i \in 1..Len(FixPool[f].operations)}
\* position of fix f in the input list (the ids of a list are distinct)
PosIn(f) == CHOOSE k \in 1..Len(fixes) : fixes[k] = f
Fixes == {fixes[k] : k \in 1..Len(fixes)}
Processed == {fixes[k] : k \in 1..(idx - 1)}
AppliedIds(res) == {res.applied[i].fix : i \in 1..Len(res.applied)}
SkippedIds(res) == {res.skipped[i].fix : i \in 1..Len(res.skipped)}
\* the skip reasons recorded for fix f
ReasonsOf(res, f) ==
    {res.skipped[i].skip_reason : i \in {j \in 1..Len(res.skipped) : res.skipped[j].fix = f}}
SkippedAs(res, f, word) ==
    /\ f \notin AppliedIds(res)
    /\ ReasonsOf(res, f) # {}
    /\ \A r \in ReasonsOf(res, f) : r # <<>> /\ Head(r) = word
InInputOrder(list) ==
    \A i, j \in 1..Len(list) : i < j => PosIn(list[i].fix) < PosIn(list[j].fix)
WrittenBy(f) == {i \in 1..Len(written) : written[i][1] = f}
FilterSet == rule_filter.some /\ rule_filter.v # <<>>
\* the first fix of the input list with an operation on path p
FirstClaimant(p) ==
    fixes[CHOOSE k \in 1..Len(fixes) :
              /\ p \in PathsOf(fixes[k])
              /\ \A j \in 1..(k - 1) : p \notin PathsOf(fixes[j])]
\* flagged by position alone: some path of f has an earlier claimant
FlaggedByPosition == {f \in Fixes : \E p \in PathsOf(f) : FirstClaimant(p) # f}

\* C2: apply_fixes(safe_only=True) executes no operation of an unsafe fix: the
\* values at the paths that only unsafe fixes target are those of the document
\* before the call, and once the call returns each unsafe fix is in skipped.
C2_SafeOnlyLeavesUnsafeUnwritten ==
    safe_only =>
        /\ \A i \in 1..Len(written) : FixPool[written[i][1]].is_safe
        /\ \A f \in Fixes : ~FixPool[f].is_safe =>
               \A p \in PathsOf(f) :
                   (\A g \in Fixes : FixPool[g].is_safe => p \notin PathsOf(g))
                       => get_value(json_data, p) = get_value(ViewJson, p)
        /\ pc = "done" =>
               \A f \in Fixes : ~FixPool[f].is_safe =>
                   f \in SkippedIds(result) /\ f \notin AppliedIds(result)

C2_Witness ==
    /\ safe_only /\ pc = "done" /\ written # <<>>
    /\ \E f \in Fixes : ~FixPool[f].is_safe /\ SkippedAs(result, f, "unsafe")

\* the operations of fix g that target a path of fix f, as conflicts (f, g)
RECURSIVE SharedOps(_, _, _)
SharedOps(f, g, ops) ==
    IF ops = <<>>
    THEN <<>>
    ELSE (IF Head(ops).json_path \in PathsOf(f)
          THEN <<FixConflict(f, g, Head(ops).json_path)>>
          ELSE <<>>) \o SharedOps(f, g, Tail(ops))

FailedFix(f) ==
    /\ f \in Processed
    /\ apply_skip_reason(f, safe_only, rule_filter, conflicting_fixes) = <<>>
    /\ Cardinality(WrittenBy(f)) < Len(FixPool[f].operations)

\* C4: a failing operation never makes apply_fixes raise: the fix is skipped
\* with a reason starting with "error" and the loop goes on to the later fixes.
C4_FailureSkipsTheFixOnly ==
    /\ pc # "raised"
    /\ \A f \in Fixes : FailedFix(f) => SkippedAs(result, f, "error")
    /\ pc = "done" => Processed = Fixes

ExpectedClass(f, conflicts) ==
    IF FilterSet /\ ~InList(FixPool[f].rule_name, rule_filter.v)
    THEN "filtered"
    ELSE IF safe_only /\ ~FixPool[f].is_safe
    THEN "unsafe"
    ELSE IF \E i \in 1..Len(conflicts) : conflicts[i].fix_b = f
    THEN "conflicts"
    ELSE "apply"

C6_DryRunLeavesDocument == [][dry_result' # dry_result => json_data' = json_data]_vars

C6_Witness == dry_result.some /\ Len(dry_result.v.applied) > 0 /\ pc = "idle"

NoErrorSkip ==
    \A i \in 1..Len(result.skipped) : Head(result.skipped[i].skip_reason) # "error"

\* C7: on the same arguments dry_run and apply_fixes return the same conflicts
\* and, when no operation of an executed fix raised, the same applied and
\* skipped lists (same fixes, same order, same reasons).
C7_DryRunAgreesWithApply ==
    (pc = "done" /\ dry_result.some) =>
        /\ dry_result.v.conflicts = result.conflicts
        /\ NoErrorSkip =>
               /\ dry_result.v.applied = result.applied
               /\ dry_result.v.skipped = result.skipped

C7_Witness ==
    /\ pc = "done" /\ dry_result.some /\ NoErrorSkip
    /\ Len(result.applied) > 0 /\ Len(result.skipped) > 1
    /\ Len(result.conflicts) > 0

C8_FlagsFixedBeforeWrites ==
    /\ written # <<>> => pc # "idle"
    /\ pc # "idle" => conflicting_fixes = FlaggedByPosition
    /\ \A f \in Processed :
           SkippedAs(result, f, "conflicts") => f \in FlaggedByPosition
    /\ \A f \in Processed \cap FlaggedByPosition : WrittenBy(f) = {}

C8_FlagsNeverRecomputed == pc # "idle" => conflicting_fixes' = conflicting_fixes

\* C8: the flagged set is complete before the first operation is written and
\* never changes afterwards; it is the set given by the positions of the fixes
\* in the list alone (a fix is flagged when a path of it has an earlier
\* claimant), whatever the document holds and whatever earlier writes did.
C8_ConflictsResolvedBeforeWrites ==
    [](C8_FlagsFixedBeforeWrites) /\ [][C8_FlagsNeverRecomputed]_vars

C8_Witness ==
    /\ pc = "done" /\ written # <<>>
    /\ \E i \in 1..Len(result.conflicts) :
           /\ SkippedAs(result, result.conflicts[i].fix_a, "error")
           /\ SkippedAs(result, result.conflicts[i].fix_b, "conflicts")

AllPaths == UNION {PathsOf(f) : f \in Fixes}
Claimants(p) == {f \in Fixes : p \in PathsOf(f)}
ConflictsOn(p) == {i \in 1..Len(result.conflicts) : result.conflicts[i].conflicting_path = p}
\* the operations on path p of the fixes other than f
OpsOnBesides(p, f) ==
    {<<g, i>> \in (Fixes \ {f}) \X (1..10) :
        i <= Len(FixPool[g].operations) /\ FixPool[g].operations[i].json_path = p}

RECURSIVE EachOperation(_, _)
EachOperation(doc, ops) ==
    IF ops = <<>>
    THEN doc
    ELSE EachOperation(apply_operation(doc, Head(ops)).doc, Tail(ops))
\* every operation of every fix of the input list executed on doc, the fixes
\* taken in the order of the pool and not in the order of the list
RECURSIVE EveryOperationApplied(_, _)
EveryOperationApplied(doc, f) ==
    IF f > Len(FixPool)
    THEN doc
    ELSE EveryOperationApplied(IF f \in Fixes THEN EachOperation(doc, FixPool[f].operations)
                                              ELSE doc,
                               f + 1)
DisjointFixes == \A f, g \in Fixes : f # g => PathsOf(f) \cap PathsOf(g) = {}
Left == pc \in {"done", "raised"}

\* C21: for fixes on pairwise-disjoint paths, apply_fixes(fixes,
\* safe_only=False) leaves the document that executing every operation of
\* every fix, safe or unsafe, gives, whatever the order of the list.
C21_DisjointFixesAllApplied ==
    (Left /\ ~safe_only /\ rule_filter = None /\ DisjointFixes) =>
        json_data = EveryOperationApplied(ViewJson, 1)

\* the path the i-th executed operation wrote to
WrittenPath(i) == FixPool[written[i][1]].operations[written[i][2]].json_path

\* C23: no DocumentPath is the target of operations of two distinct applied
\* fixes of one apply_fixes call: the path sets of two applied fixes are
\* disjoint, and no path is written by two fixes of the batch.
C23_AppliedFixesDisjoint ==
    /\ \A i, j \in 1..Len(result.applied) :
           i # j => PathsOf(result.applied[i].fix) \cap PathsOf(result.applied[j].fix) = {}
    /\ \A i, j \in 1..Len(written) :
           written[i][1] # written[j][1] => WrittenPath(i) # WrittenPath(j)
\* a call that applied two fixes and skipped a third one that shares a path with them
C23_Witness ==
    /\ pc = "done"
    /\ Len(result.applied) = 2
    /\ \E f \in SkippedIds(result) : \E g \in AppliedIds(result) :
           PathsOf(f) \cap PathsOf(g) # {}

\* each fix of the set appears once in applied or skipped of the result, in
\* input order within each list, and each skipped entry has a reason
Partitions(res, fixset) ==
    /\ AppliedIds(res) \cup SkippedIds(res) = fixset
    /\ AppliedIds(res) \cap SkippedIds(res) = {}
    /\ Len(res.applied) + Len(res.skipped) = Cardinality(fixset)
    /\ InInputOrder(res.applied)
    /\ InInputOrder(res.skipped)
    /\ \A i \in 1..Len(res.skipped) : res.skipped[i].skip_reason # <<>>

C25_ConflictsOnlyWithAppliedFixes ==
    pc = "done" =>
        \A f \in Fixes :
            SkippedAs(result, f, "conflicts") =>
                \E g \in AppliedIds(result) :
                    PosIn(g) < PosIn(f) /\ PathsOf(f) \cap PathsOf(g) # {}

\* C26: a fix recorded in skipped, a fix skipped with an 'error:' reason
\* included, wrote nothing: each fix has all of its operations written or
\* none.
C26_SkippedFixWroteNothing ==
    /\ \A f \in SkippedIds(result) : WrittenBy(f) = {}
    /\ \A f \in Processed :
           Cardinality(WrittenBy(f)) \in {0, Len(FixPool[f].operations)}

-----------------------------------------------------------------------------
(* Properties of the rename runs *)

\* the string of the document after the run
TextAfter == ValueAt(json_data, TextPathOf(view.v)).v
Referenced == Len(lookup.v.ret.operations) > 1
\* the string of the document with the names equal to old replaced by new,
\* name by name
Renamed(v, old, new) ==
    TextOf([v EXCEPT !.ref = [i \in DOMAIN v.ref |-> IF v.ref[i] = old THEN new ELSE v.ref[i]]])

\* C22: after the rename fix of a referenced component is applied with
\* safe_only=False, the new name not containing the old one, the name field of
\* the component holds the new name, every string that referenced the old
\* name contains the new name and no longer the old one, and
\* find_references(old name) on the updated document is empty.
C22_RenameLeavesNoReference ==
    (pc = "done" /\ Referenced /\ ~Contains(lookup.v.new_name, lookup.v.old_name)) =>
        /\ ValueAt(json_data, lookup.v.component \o <<K("meta"), K("name")>>)
               = Str(lookup.v.new_name)
        /\ Contains(TextAfter, lookup.v.new_name)
        /\ ~Contains(TextAfter, lookup.v.old_name)
        /\ lookup.v.op = "find_references" => lookup.v.found = <<>>

\* C27: applying the STRING_REPLACE operations of build_rename_operations
\* changes, in a referencing string, the references to the renamed component
\* only: the rest of the string, the references to components whose names
\* contain the old name included, is as before.
C27_RenameChangesOnlyTheReferences ==
    (pc = "done" /\ Referenced) =>
        TextAfter = Renamed(view.v, lookup.v.old_name, lookup.v.new_name)

-----------------------------------------------------------------------------
(* Properties of the index over repeated passes *)

\* the validation loop over the first n nodes of a list, from empty lists
RECURSIVE PassOver(_, _, _, _, _, _)
PassOver(ix, node_list, n, expressions, property_bindings, scripts) ==
    IF n = 0
    THEN [errors |-> <<>>, trace |-> <<>>]
    ELSE accept(ix, PassOver(ix, node_list, n - 1, expressions, property_bindings, scripts),
                node_list[n], expressions, property_bindings, scripts)
\* a pass of a new rule, every validation switched on, over the nodes of a view
PassOf(v) ==
    PassOver(build_component_index(EmptyIndex, SelectSeq(NodesOf(v), IsComponentNode)),
             NodesOf(v), Len(NodesOf(v)), TRUE, TRUE, TRUE)
\* the outcome of the reference of a view in the records of a pass: of its
\* token, or of the first chain of its script
OutcomeIn(trace, v) ==
    trace[CHOOSE i \in 1..Len(trace) :
              /\ v.kind = "script" => trace[i].ref.ref_type = "chain"
              /\ \A j \in 1..(i - 1) :
                     v.kind = "script" /\ trace[j].ref.ref_type # "chain"].outcome
\* the token views the script view is the chain of
TokensOf(v) == {t \in TokenViews : ChainView(t) = v}

\* C28: for every tree, owning component and name list, the relative token
\* with k + 1 leading dots and the names n1/.../nm is validated without a
\* violation exactly when the chain self, k times .parent, getChild('n1') ...
\* getChild('nm') of a script of the same owning component is.
C28_TokenAgreesWithChain ==
    rv_pc = "done" =>
        IF view.v.kind = "script"
        THEN \A t \in TokensOf(view.v) :
                 OutcomeIn(rv_trace, view.v) = "resolved"
                     <=> OutcomeIn(PassOf(t).trace, t) = "resolved"
        ELSE OutcomeIn(rv_trace, view.v) = "resolved"
                 <=> OutcomeIn(PassOf(ChainView(view.v)).trace, ChainView(view.v)) = "resolved"

\* a pass built its index: the rule is in or after the validation loop
Indexed == rv_pc \in {"validate", "done"}
\* the children the index lists under the path
ListedUnder(parent_path) ==
    IF MapGet(children_map, parent_path).some
    THEN {MapGet(children_map, parent_path).v[i] :
              i \in 1..Len(MapGet(children_map, parent_path).v)}
    ELSE {}
\* following parent_map from the path ends at the root within n steps
RECURSIVE ReachesRoot(_, _)
ReachesRoot(path, n) ==
    \/ path = RootPath
    \/ /\ n > 0
       /\ MapGet(parent_map, path).some
       /\ ReachesRoot(MapGet(parent_map, path).v, n - 1)

\* C29: after the index is built from a component list, parent_map has no
\* entry exactly for the root component, the parent of every other component
\* is its path without the trailing '.children[i].Name' pair (the path of the
\* component it lies under), a component is listed in children_map[p] exactly
\* when parent_map gives it the parent p, and following parent_map from any
\* component reaches the root.
C29_IndexIsTheTree ==
    Indexed =>
        \A c \in Components :
            /\ MapGet(parent_map, PathOf(view.v, c)).some <=> HasParent(c)
            /\ HasParent(c) =>
                   MapGet(parent_map, PathOf(view.v, c)) =
                       Some(PathOf(view.v, ParentOf(view.v, c)))
            /\ \A p \in Components :
                   PathOf(view.v, c) \in ListedUnder(PathOf(view.v, p))
                       <=> MapGet(parent_map, PathOf(view.v, c)) = Some(PathOf(view.v, p))
            /\ ReachesRoot(PathOf(view.v, c), Cardinality(Components))

\* the index phase 1 builds from the component nodes of the pass, from empty
FreshIndex == build_component_index(EmptyIndex, SelectSeq(nodes, IsComponentNode))
\* the violations of the first n nodes of the pass, from empty lists
FreshlyValidated(n) ==
    PassOver(FreshIndex, nodes, n, validate_expressions, validate_property_bindings,
             validate_scripts)

\* C30: in every pass of a sequence of passes of one rule object, the index
\* (component_tree, component_by_name, parent_map, children_map) is the one
\* built from the node list of that pass alone and the violation list holds
\* the violations of the nodes of that pass validated so far and no other;
\* the validation loop leaves the index as phase 1 built it.
C30_PassHoldsOnlyItsOwnNodes ==
    Indexed =>
        /\ TheIndex = FreshIndex
        /\ errors = FreshlyValidated(rv_idx - 1).errors
C30_Witness ==
    /\ rv_pass > 1
    /\ rv_pc = "done"
    /\ errors # <<>>
    /\ Len(component_tree) = Cardinality(Components)

====
